---- MODULE Spec2Model ----
(***************************************************************************)
(* A model of the emt error collectors (package emt).                      *)
(*                                                                         *)
(* Two collectors, "A" and "B", are used by a bounded number of calling    *)
(* goroutines, either directly or, collector "A", through an ErrorChannel. *)
(* A goroutine inside a method of the package is known by its             *)
(* call stack (goroutines have no identity in Go): a call action starts a  *)
(* stack of one frame, and the steps of the method body are separate       *)
(* actions, split where the body takes or releases the collector's         *)
(* sync.RWMutex, so that every interleaving the lock allows is explored.   *)
(***************************************************************************)
EXTENDS Integers, Sequences, FiniteSets, Bags, TLC

----------------------------------------------------------------------------
(* Bounds of the model *)

\* number of goroutines that are inside a method at the same time
NumProcs == 2
\* how many non-nil errors the callers submit in one behaviour
MaxErrs == 3
\* the largest capacity a collector is constructed with
MaxCap == 2
\* how many times a collector is passed as an error to a timestamp collector
MaxCats == 1
\* the largest buffer size an ErrorChannel is constructed with
MaxBuf == 1
\* how many times Stop is called on an ErrorChannel
MaxStops == 2
\* how many non-nil errors are submitted to an ErrorChannel in one behaviour
MaxChanErrs == 2

Catchers == {"A", "B"}

----------------------------------------------------------------------------
(* Error values.  An error is nil, a leaf error made by errors.New or      *)
(* fmt.Errorf (known by its text, a sequence of tokens), a collector used  *)
(* as an error, or a *timestampError: a pointer into tsHeap (0 = the nil   *)
(* pointer held in a non-nil interface).                                   *)

Nil == [kind |-> "nil", text |-> <<>>, cat |-> "", ref |-> 0]
Leaf(t) == [kind |-> "leaf", text |-> t, cat |-> "", ref |-> 0]
Cat(c) == [kind |-> "catcher", text |-> <<>>, cat |-> c, ref |-> 0]
Ts(r) == [kind |-> "ts", text |-> <<>>, cat |-> "", ref |-> r]

ErrA == Leaf(<<"a">>)
ErrEmpty == Leaf(<<>>)

\* an error that implements fmt.Formatter and prints more under %+v than its
\* Error() returns, as the errors annotated by pkg/errors do with their stack
ErrStack == [kind |-> "verbose", text |-> <<"s">>, cat |-> "", ref |-> 0]

\* the errors the callers pass to Add, AddWhen and Check functions
ErrArgs == {Nil, ErrA, ErrEmpty} \cup {Cat(c) : c \in Catchers}

\* the slices the callers pass to Extend and ExtendWhen
ExtendArgs ==
    {<<>>, <<Nil>>, <<Nil, ErrA, ErrEmpty>>} \cup {<<Cat(c)>> : c \in Catchers}

Variants == {"basic", "simple", "extended", "timestamp", "timestampExt"}
IsTs(v) == v \in {"timestamp", "timestampExt"}

VARIABLES
    kind,       \* kind[c]: the constructor that made collector c
    maxSize,    \* maxSize[c]: the maxSize field
    errs,       \* errs[c]: the errs slice
    wlock,      \* wlock[c]: c's mutex is held for writing
    calls,      \* the bag of the call stacks of the goroutines inside a method
    tsHeap,     \* the timestampError objects allocated so far
    now,        \* the instant time.Now() returns
    submitted,  \* ghost: submitted[c]: bag of the errors passed to c.Add / c.Extend to be stored
    added,      \* ghost: added[c]: every element ever appended to errs[c], in order
    ec          \* the ErrorChannel around collector "A", if one was constructed

vars == <<kind, maxSize, errs, wlock, calls, tsHeap, now, submitted, added, ec>>

----------------------------------------------------------------------------
(* Constructor arguments *)

\* baseCatcher{maxSize: size} keeps the size as given
MakeBasicCatcher(size) == size

\* MakeTimestampCatcher / MakeExtendedTimestampCatcher clamp a negative size to 0
MakeTimestampCatcher(size) == IF size < 0 THEN 0 ELSE size

SizeArgs == {-1, 0, MaxCap}

----------------------------------------------------------------------------
(* Frames and the call stack *)

\* what a call returns: has = it returns a value; nil = the value is a nil
\* error; alias = the slice errs shares its backing array with c.errs
NoOut ==
    [has |-> FALSE, nil |-> TRUE, b |-> FALSE, n |-> 0, errs |-> <<>>, text |-> <<>>,
     alias |-> FALSE]
Value == [NoOut EXCEPT !.has = TRUE, !.nil = FALSE]
NilError == [NoOut EXCEPT !.has = TRUE]

\* a fresh frame of method op on collector c; ctx is the context argument of
\* the methods that have one ("nil" = a nil Context).  Three fields are ghosts:
\* alone = the call was made while no other call was in flight, and none was
\* made since; base = how many errors the collector held when the call was
\* made; ctxDone = the context passed to Wait was done when the call was
\* made, and in start, Stop had been called when the error in hand was sent
Frame(op, c) ==
    [pc |-> op, op |-> op, self |-> c, err |-> Nil, list |-> <<>>, idx |-> 1,
     flat |-> FALSE, cond |-> TRUE, msg |-> <<>>, args |-> <<>>, fns |-> <<>>,
     invoked |-> 0, ctx |-> "ctx", out |-> NoOut, alone |-> FALSE, base |-> 0,
     ctxDone |-> FALSE]

\* the goroutines inside a method
Procs == BagToSet(calls)

\* p is the call stack of a goroutine; its last frame is the running one
Top(p) == p[Len(p)]
At(p, label) == Top(p).pc = label
Self(p) == Top(p).self

\* goroutine p takes a step that leaves it with call stack q
Step(p, q) == (calls (-) SetToBag({p})) (+) SetToBag({q})

SetTop(p, f) == Step(p, [p EXCEPT ![Len(p)] = f])
Goto(p, label) == SetTop(p, [Top(p) EXCEPT !.pc = label])
Push(p, f, g) == Step(p, Append([p EXCEPT ![Len(p)] = f], g))

\* return o to the caller: a value returned to the goroutine stays in the
\* outermost frame, as "done", until the goroutine takes it
Return(p, o) ==
    IF Len(p) = 1
    THEN IF o.has THEN Step(p, <<[Top(p) EXCEPT !.pc = "done", !.out = o]>>)
                  ELSE calls (-) SetToBag({p})
    ELSE LET n == Len(p) - 1
         IN  Step(p, [i \in 1..n |-> IF i = n THEN [p[i] EXCEPT !.out = o] ELSE p[i]])

----------------------------------------------------------------------------
(* Construction *)

\* the ErrorChannel: errRecv and errSend are the buffers of the two channels,
\* done is ec.ctx.Done() (Stop was called or the context given to
\* NewErrorChannel, parent, was cancelled), user is the Done() of the context
\* the callers pass to Collect and Wait, received is what was read from Out(),
\* closed is the set of the channels close() was called on, closedOp = a send
\* has panicked on a closed channel or a receive has found a channel closed.
\* Ghosts: stops = the calls of Stop so far; lateRecv[i] = the i-th element of
\* errRecv was sent after a call of Stop; faults = the panics of start
NoChannel ==
    [on |-> FALSE, size |-> 0, errRecv |-> <<>>, errSend |-> <<>>,
     done |-> FALSE, user |-> FALSE, received |-> <<>>,
     closed |-> {}, closedOp |-> FALSE,
     stops |-> 0, lateRecv |-> <<>>, faults |-> 0]

\* The collectors of the behaviour: collector A made by one of the
\* constructors with one of the sizes (B is the sub-collector, unbounded)
InitCatchers ==
    /\ \E v \in Variants, size \in SizeArgs :
        /\ kind = [c \in Catchers |-> IF c = "A" THEN v ELSE "basic"]
        /\ maxSize = [c \in Catchers |->
                        IF c = "A"
                        THEN IF IsTs(v) THEN MakeTimestampCatcher(size)
                                        ELSE MakeBasicCatcher(size)
                        ELSE 0]
    /\ calls = EmptyBag
    /\ ec = NoChannel

\* func NewErrorChannel(ctx context.Context, size int) *ErrorChannel: the
\* catcher is NewCatcher(), which is NewExtendedCatcher(), and the goroutine
\* of ec.start is running
NewErrorChannel ==
    /\ kind = [c \in Catchers |-> IF c = "A" THEN "extended" ELSE "basic"]
    /\ maxSize = [c \in Catchers |-> 0]
    /\ calls = SetToBag({<<Frame("start", "A")>>})
    /\ \E size \in 1..MaxBuf : ec = [NoChannel EXCEPT !.on = TRUE, !.size = size]

\* nothing is stored, nobody holds a mutex
Fresh ==
    /\ errs = [c \in Catchers |-> <<>>]
    /\ wlock = [c \in Catchers |-> FALSE]
    /\ tsHeap = <<>>
    /\ now = 1
    /\ submitted = [c \in Catchers |-> EmptyBag]
    /\ added = [c \in Catchers |-> <<>>]

Init == (InitCatchers \/ NewErrorChannel) /\ Fresh

\* the behaviours of an ErrorChannel
ChanInit == NewErrorChannel /\ Fresh

----------------------------------------------------------------------------
(* sync.RWMutex.  Lock is taken when nobody holds the mutex, in one step    *)
(* with the local test that precedes it; the read sections of this package *)
(* (RLock ... RUnlock) are taken in one step, when no writer holds the     *)
(* mutex.                                                                  *)

\* seeded fault: readers do not wait for the writer
CanRLock_Always(c) == TRUE

CanRLock(c) == ~wlock[c]

\* seeded fault: writers do not exclude one another
CanLock_Always(c) == TRUE

CanLock(c) == ~wlock[c]

Lock(c) == [wlock EXCEPT ![c] = TRUE]
Unlock(c) == [wlock EXCEPT ![c] = FALSE]

----------------------------------------------------------------------------
(* The write path shared by the collectors *)

\* the bag of the elements of a sequence
BagOfSeq(s) ==
    [e \in {s[i] : i \in DOMAIN s} |-> Cardinality({i \in DOMAIN s : s[i] = e})]

\* the errors of es that collector c is to store as elements: the non-nil
\* ones, a collector passed as an error counting for a timestamp collector
\* only (a baseCatcher merges it instead)
ToStore(c, es) ==
    SelectSeq(es, LAMBDA e : e # Nil /\ (e.kind = "catcher" => IsTs(kind[c])))

\* ghost: es was passed to c.Add (one error) or to c.Extend
Submit(c, es) == [submitted EXCEPT ![c] = @ (+) BagOfSeq(ToStore(c, es))]

\* seeded fault: no capacity test, every error is appended
HasRoom_Always(size, n) == TRUE

\* seeded fault: the capacity test is off by one
HasRoom_OffByOne(size, n) == size <= 0 \/ size > n + 1

\* the room test of safeAdd: append when unbounded or below capacity
HasRoom(size, n) == size <= 0 \/ size > n

\* seeded fault: the newest stored error is dropped
DropNewest(s) == SubSeq(s, 1, Len(s) - 1)

\* c.errs = c.errs[1:]
DropOldest(s) == Tail(s)

\* the index of the first non-nil element of list at or after i (if err ==
\* nil { continue }), Len(list) + 1 when there is none
NextIdx(list, i) ==
    LET rest == {j \in i..Len(list) : list[j] # Nil}
    IN  IF rest = {} THEN Len(list) + 1
        ELSE CHOOSE j \in rest : \A k \in rest : j <= k

\* The frame after safeAdd returned.  In Extend the range loop goes on to the
\* next non-nil element; at the end of Extend, and in Add, the deferred
\* Unlock runs and the method returns.
LoopDone(f) == f.list = <<>> \/ NextIdx(f.list, f.idx + 1) > Len(f.list)

AfterSafeAdd(p) ==
    LET f == Top(p)
        j == NextIdx(f.list, f.idx + 1)
    IN  IF LoopDone(f)
        THEN /\ wlock' = Unlock(f.self)
             /\ calls' = Return(p, NoOut)
        ELSE /\ calls' = SetTop(p, [f EXCEPT !.idx = j, !.err = f.list[j],
                                             !.pc = "safeAdd", !.flat = FALSE])
             /\ UNCHANGED wlock

\* seeded fault: Add without the nil test
AddEntry_NoNilTest(p) ==
    /\ CanLock(Self(p))
    /\ wlock' = Lock(Self(p))
    /\ calls' = Goto(p, "safeAdd")

\* Add: if err == nil { return }; c.mutex.Lock(); then safeAdd
AddEntry(p) ==
    IF Top(p).err = Nil
    THEN /\ calls' = Return(p, NoOut)
         /\ UNCHANGED wlock
    ELSE /\ CanLock(Self(p))
         /\ wlock' = Lock(Self(p))
         /\ calls' = Goto(p, "safeAdd")

\* Extend: if len(errs) == 0 { return }; c.mutex.Lock(); then the range loop
\* up to its first non-nil element
ExtendEntry(p) ==
    LET f == Top(p)
        j == NextIdx(f.list, 1)
    IN  IF Len(f.list) = 0
        THEN /\ calls' = Return(p, NoOut)
             /\ UNCHANGED wlock
        ELSE /\ CanLock(f.self)
             /\ IF j > Len(f.list)
                THEN /\ calls' = Return(p, NoOut)
                     /\ UNCHANGED wlock
                ELSE /\ wlock' = Lock(f.self)
                     /\ calls' = SetTop(p, [f EXCEPT !.idx = j, !.err = f.list[j],
                                                     !.pc = "safeAdd"])

----------------------------------------------------------------------------
(* baseCatcher: the write path *)

\* func (c *baseCatcher) Add(err error)
baseCatcher_Add(p) ==
    /\ At(p, "Add")
    /\ ~IsTs(kind[Self(p)])
    /\ AddEntry(p)
    /\ UNCHANGED <<ec, kind, maxSize, errs, tsHeap, now, submitted, added>>

\* func (c *baseCatcher) Extend(errs []error)
baseCatcher_Extend(p) ==
    /\ At(p, "Extend")
    /\ ~IsTs(kind[Self(p)])
    /\ ExtendEntry(p)
    /\ UNCHANGED <<ec, kind, maxSize, errs, tsHeap, now, submitted, added>>

\* func (c *baseCatcher) safeAdd(err error): the type switch and the store;
\* at capacity the oldest error is dropped here and the append is the next step
baseCatcher_safeAdd(p) ==
    LET c == Self(p)
        e == Top(p).err
    IN  /\ At(p, "safeAdd")
        /\ ~IsTs(kind[c])
        /\ IF e.kind = "catcher"
           THEN /\ calls' = Goto(p, "flatten")
                /\ UNCHANGED <<errs, added, wlock>>
           ELSE IF HasRoom(maxSize[c], Len(errs[c]))
           THEN /\ errs' = [errs EXCEPT ![c] = Append(@, e)]
                /\ added' = [added EXCEPT ![c] = Append(@, e)]
                /\ AfterSafeAdd(p)
           ELSE /\ errs' = [errs EXCEPT ![c] = DropOldest(@)]
                /\ calls' = Goto(p, "safeAdd.append")
                /\ UNCHANGED <<added, wlock>>
        /\ UNCHANGED <<ec, kind, maxSize, tsHeap, now, submitted>>

\* c.errs = append(c.errs, err) after c.errs = c.errs[1:]
AppendStep(p, ts) ==
    LET c == Self(p)
        e == Top(p).err
    IN  /\ At(p, "safeAdd.append")
        /\ IsTs(kind[c]) = ts
        /\ errs' = [errs EXCEPT ![c] = Append(@, e)]
        /\ added' = [added EXCEPT ![c] = Append(@, e)]
        /\ AfterSafeAdd(p)
        /\ UNCHANGED <<ec, kind, maxSize, tsHeap, now, submitted>>

\* baseCatcher.safeAdd, the else branch after the drop
baseCatcher_safeAdd_append(p) == AppendStep(p, FALSE)

\* safeAdd on a Catcher: if catcher.HasErrors() { ... } return
baseCatcher_safeAdd_HasErrors(p) ==
    LET sub == Top(p).err.cat
    IN  /\ At(p, "flatten")
        /\ CanRLock(sub)
        /\ IF Len(errs[sub]) > 0
           THEN /\ calls' = Goto(p, "flatten.Extend")
                /\ UNCHANGED wlock
           ELSE AfterSafeAdd(p)
        /\ UNCHANGED <<ec, kind, maxSize, errs, tsHeap, now, submitted, added>>

\* c.Extend(catcher.Errors()); return: the copy is read and Extend is called
\* on c by the goroutine that already holds c's mutex; when Extend has
\* returned, safeAdd returns
baseCatcher_safeAdd_Extend(p) ==
    LET sub == Top(p).err.cat
    IN  /\ At(p, "flatten.Extend")
        /\ IF Top(p).flat
           THEN AfterSafeAdd(p)
           ELSE /\ CanRLock(sub)
                /\ calls' = Push(p, [Top(p) EXCEPT !.flat = TRUE],
                                    [Frame("Extend", Self(p)) EXCEPT !.list = errs[sub]])
                /\ UNCHANGED wlock
        /\ UNCHANGED <<ec, kind, maxSize, errs, tsHeap, now, submitted, added>>

----------------------------------------------------------------------------
(* timeAnnotatingCatcher: the write path *)

\* seeded fault: a timestampError passed in is stamped again
newTimeStampError_Restamp(e) ==
    IF e = Nil THEN [ref |-> 0, heap |-> tsHeap]
    ELSE IF e.kind = "ts"
    THEN [ref |-> e.ref,
          heap |-> IF e.ref = 0 THEN tsHeap ELSE [tsHeap EXCEPT ![e.ref].time = now]]
    ELSE [ref |-> Len(tsHeap) + 1,
          heap |-> Append(tsHeap, [err |-> e, time |-> now, extended |-> FALSE])]

\* func newTimeStampError(err error) *timestampError: the pointer itself
\* when err is one already, else a new timestampError holding time.Now()
newTimeStampError(e) ==
    IF e = Nil THEN [ref |-> 0, heap |-> tsHeap]
    ELSE IF e.kind = "ts" THEN [ref |-> e.ref, heap |-> tsHeap]
    ELSE [ref |-> Len(tsHeap) + 1,
          heap |-> Append(tsHeap, [err |-> e, time |-> now, extended |-> FALSE])]

\* func (e *timestampError) setExtended(v bool) *timestampError
setExtended(heap, r, v) == [heap EXCEPT ![r].extended = v]

\* the extended field of the timeAnnotatingCatcher
extended(c) == kind[c] = "timestampExt"

\* func (c *timeAnnotatingCatcher) Add(err error)
timeAnnotatingCatcher_Add(p) ==
    /\ At(p, "Add")
    /\ IsTs(kind[Self(p)])
    /\ AddEntry(p)
    /\ UNCHANGED <<ec, kind, maxSize, errs, tsHeap, now, submitted, added>>

\* func (c *timeAnnotatingCatcher) Extend(errs []error)
timeAnnotatingCatcher_Extend(p) ==
    /\ At(p, "Extend")
    /\ IsTs(kind[Self(p)])
    /\ ExtendEntry(p)
    /\ UNCHANGED <<ec, kind, maxSize, errs, tsHeap, now, submitted, added>>

\* The argument of safeAdd is evaluated, then safeAdd stores it; at capacity
\* the oldest error is dropped here and the append is the next step.  The
\* clock advances between two readings of time.Now().
StoreWrapped(p) ==
    LET c == Self(p)
        f == Top(p)
        inExtend == f.list # <<>>
        w == newTimeStampError(f.err)
    IN  /\ now' = IF w.heap = tsHeap THEN now ELSE now + 1
        /\ IF w.ref = 0
           THEN \* a nil *timestampError: setExtended dereferences it; safeAdd ignores it
                /\ IF inExtend
                   THEN /\ wlock' = Unlock(c)
                        /\ calls' = Goto(p, "panic")
                   ELSE AfterSafeAdd(p)
                /\ UNCHANGED <<errs, added, tsHeap>>
           ELSE /\ tsHeap' = IF inExtend THEN setExtended(w.heap, w.ref, extended(c))
                             ELSE w.heap
                /\ IF HasRoom(maxSize[c], Len(errs[c]))
                   THEN /\ errs' = [errs EXCEPT ![c] = Append(@, Ts(w.ref))]
                        /\ added' = [added EXCEPT ![c] = Append(@, Ts(w.ref))]
                        /\ AfterSafeAdd(p)
                   ELSE /\ errs' = [errs EXCEPT ![c] = DropOldest(@)]
                        /\ calls' = SetTop(p, [f EXCEPT !.err = Ts(w.ref),
                                                        !.pc = "safeAdd.append"])
                        /\ UNCHANGED <<added, wlock>>
        /\ UNCHANGED <<ec, kind, maxSize, submitted>>

\* seeded fault: a collector passed as an error is merged, as baseCatcher
\* does, not stored
safeAdd_Merging(p) ==
    /\ At(p, "safeAdd")
    /\ IsTs(kind[Self(p)])
    /\ IF Top(p).err.kind = "catcher"
       THEN /\ calls' = Goto(p, "flatten")
            /\ UNCHANGED <<ec, kind, maxSize, errs, wlock, tsHeap, now, submitted, added>>
       ELSE StoreWrapped(p)

\* c.safeAdd(newTimeStampError(err)) of Add, and
\* c.safeAdd(newTimeStampError(err).setExtended(c.extended)) of Extend
timeAnnotatingCatcher_safeAdd(p) ==
    /\ At(p, "safeAdd")
    /\ IsTs(kind[Self(p)])
    /\ StoreWrapped(p)

\* timeAnnotatingCatcher.safeAdd, the else branch after the drop
timeAnnotatingCatcher_safeAdd_append(p) == AppendStep(p, TRUE)

----------------------------------------------------------------------------
(* The conditional and constructing methods.  baseCatcher and              *)
(* timeAnnotatingCatcher define them with the same bodies; each ends in a  *)
(* call of Add, Extend, New or Errorf on the same collector, which is the  *)
(* rest of the call.                                                       *)

\* fmt.Sprintf(form, args...): every "%s" or "%v" takes the next argument
\* (known by its text); arguments left over are reported at the end
RECURSIVE Sprintf(_, _)
Sprintf(form, args) ==
    IF Len(form) = 0
    THEN IF Len(args) = 0 THEN <<>> ELSE <<"%!(EXTRA)">>
    ELSE IF Head(form) \in {"%s", "%v"}
    THEN IF Len(args) = 0 THEN <<"%!s(MISSING)">> \o Sprintf(Tail(form), args)
         ELSE <<Head(args)>> \o Sprintf(Tail(form), Tail(args))
    ELSE <<Head(form)>> \o Sprintf(Tail(form), args)

\* seeded fault: the condition is not tested
WhenStep_Unconditional(p, op, label) ==
    /\ At(p, op)
    /\ calls' = Goto(p, label)

\* if !cond { return }; then the call at label
WhenStep(p, op, label) ==
    /\ At(p, op)
    /\ calls' = IF Top(p).cond THEN Goto(p, label) ELSE Return(p, NoOut)

\* c.Add(e) as the last statement of a method
TailAdd(p, f, e) ==
    /\ calls' = SetTop(p, [f EXCEPT !.err = e, !.pc = "Add"])
    /\ submitted' = Submit(f.self, <<e>>)

AddWhenStep(p) ==
    /\ At(p, "AddWhen")
    /\ IF Top(p).cond
       THEN TailAdd(p, Top(p), Top(p).err)
       ELSE calls' = Return(p, NoOut) /\ UNCHANGED submitted
    /\ UNCHANGED <<ec, kind, maxSize, errs, wlock, tsHeap, now, added>>

ExtendWhenStep(p) ==
    /\ WhenStep(p, "ExtendWhen", "Extend")
    /\ submitted' = IF Top(p).cond THEN Submit(Self(p), Top(p).list) ELSE submitted
    /\ UNCHANGED <<ec, kind, maxSize, errs, wlock, tsHeap, now, added>>

\* New: if e == "" { return }; c.Add(errors.New(e))
NewStep(p) ==
    /\ At(p, "New")
    /\ IF Top(p).msg = <<>>
       THEN calls' = Return(p, NoOut) /\ UNCHANGED submitted
       ELSE TailAdd(p, Top(p), Leaf(Top(p).msg))
    /\ UNCHANGED <<ec, kind, maxSize, errs, wlock, tsHeap, now, added>>

NewWhenStep(p) ==
    /\ WhenStep(p, "NewWhen", "New")
    /\ UNCHANGED <<ec, kind, maxSize, errs, wlock, tsHeap, now, submitted, added>>

\* seeded fault: Errorf formats even when it has no arguments
ErrorfStep_AlwaysFormats(p) ==
    /\ At(p, "Errorf")
    /\ IF Top(p).msg = <<>>
       THEN calls' = Return(p, NoOut) /\ UNCHANGED submitted
       ELSE TailAdd(p, Top(p), Leaf(Sprintf(Top(p).msg, Top(p).args)))
    /\ UNCHANGED <<ec, kind, maxSize, errs, wlock, tsHeap, now, added>>

\* Errorf: nothing for an empty format, New(form) without arguments, else
\* c.Add(fmt.Errorf(form, args...))
ErrorfStep(p) ==
    /\ At(p, "Errorf")
    /\ IF Top(p).msg = <<>>
       THEN calls' = Return(p, NoOut) /\ UNCHANGED submitted
       ELSE IF Len(Top(p).args) = 0
       THEN calls' = Goto(p, "New") /\ UNCHANGED submitted
       ELSE TailAdd(p, Top(p), Leaf(Sprintf(Top(p).msg, Top(p).args)))
    /\ UNCHANGED <<ec, kind, maxSize, errs, wlock, tsHeap, now, added>>

ErrorfWhenStep(p) ==
    /\ WhenStep(p, "ErrorfWhen", "Errorf")
    /\ UNCHANGED <<ec, kind, maxSize, errs, wlock, tsHeap, now, submitted, added>>

\* Check: c.Add(fn()); the check function is known by the error it returns
CheckStep(p) ==
    /\ At(p, "Check")
    /\ TailAdd(p, [Top(p) EXCEPT !.invoked = @ + 1], Top(p).fns[1])
    /\ UNCHANGED <<ec, kind, maxSize, errs, wlock, tsHeap, now, added>>

CheckWhenStep(p) ==
    /\ At(p, "CheckWhen")
    /\ IF Top(p).cond
       THEN TailAdd(p, [Top(p) EXCEPT !.invoked = @ + 1], Top(p).fns[1])
       ELSE calls' = Return(p, NoOut) /\ UNCHANGED submitted
    /\ UNCHANGED <<ec, kind, maxSize, errs, wlock, tsHeap, now, added>>

\* seeded fault: CheckExtend stops at the first function that returns an error
CheckExtendStep_StopAtError(p) ==
    LET f == Top(p)
    IN  /\ At(p, "CheckExtend")
        /\ IF f.idx > Len(f.fns) \/ (f.idx > 1 /\ f.fns[f.idx - 1] # Nil)
           THEN calls' = Return(p, NoOut) /\ UNCHANGED submitted
           ELSE /\ calls' = Push(p, [f EXCEPT !.idx = @ + 1, !.invoked = @ + 1],
                                    [Frame("Add", f.self) EXCEPT !.err = f.fns[f.idx]])
                /\ submitted' = Submit(f.self, <<f.fns[f.idx]>>)
        /\ UNCHANGED <<ec, kind, maxSize, errs, wlock, tsHeap, now, added>>

\* CheckExtend: for _, fn := range fns { c.Add(fn()) }
CheckExtendStep(p) ==
    LET f == Top(p)
    IN  /\ At(p, "CheckExtend")
        /\ IF f.idx > Len(f.fns)
           THEN calls' = Return(p, NoOut) /\ UNCHANGED submitted
           ELSE /\ calls' = Push(p, [f EXCEPT !.idx = @ + 1, !.invoked = @ + 1],
                                    [Frame("Add", f.self) EXCEPT !.err = f.fns[f.idx]])
                /\ submitted' = Submit(f.self, <<f.fns[f.idx]>>)
        /\ UNCHANGED <<ec, kind, maxSize, errs, wlock, tsHeap, now, added>>

OnBase(p) == ~IsTs(kind[Self(p)])
OnTs(p) == IsTs(kind[Self(p)])

baseCatcher_Errorf(p) == OnBase(p) /\ ErrorfStep(p)
baseCatcher_New(p) == OnBase(p) /\ NewStep(p)
baseCatcher_AddWhen(p) == OnBase(p) /\ AddWhenStep(p)
baseCatcher_ExtendWhen(p) == OnBase(p) /\ ExtendWhenStep(p)
baseCatcher_ErrorfWhen(p) == OnBase(p) /\ ErrorfWhenStep(p)
baseCatcher_NewWhen(p) == OnBase(p) /\ NewWhenStep(p)
baseCatcher_Check(p) == OnBase(p) /\ CheckStep(p)
baseCatcher_CheckWhen(p) == OnBase(p) /\ CheckWhenStep(p)
baseCatcher_CheckExtend(p) == OnBase(p) /\ CheckExtendStep(p)

timeAnnotatingCatcher_AddWhen(p) == OnTs(p) /\ AddWhenStep(p)
timeAnnotatingCatcher_ExtendWhen(p) == OnTs(p) /\ ExtendWhenStep(p)
timeAnnotatingCatcher_New(p) == OnTs(p) /\ NewStep(p)
timeAnnotatingCatcher_NewWhen(p) == OnTs(p) /\ NewWhenStep(p)
timeAnnotatingCatcher_Errorf(p) == OnTs(p) /\ ErrorfStep(p)
timeAnnotatingCatcher_ErrorfWhen(p) == OnTs(p) /\ ErrorfWhenStep(p)
timeAnnotatingCatcher_Check(p) == OnTs(p) /\ CheckStep(p)
timeAnnotatingCatcher_CheckWhen(p) == OnTs(p) /\ CheckWhenStep(p)
timeAnnotatingCatcher_CheckExtend(p) == OnTs(p) /\ CheckExtendStep(p)

----------------------------------------------------------------------------
(* Text.  A text is a sequence of tokens; rendering an error gives a text  *)
(* or panics.  Rendering a collector's element may call into another       *)
(* collector (a timestampError can hold a collector as its error), so the  *)
(* operators are recursive; seen is the set of collectors whose String is  *)
(* already on the call path (entering one again recurses without end).     *)

Ok(t) == [panic |-> FALSE, text |-> t]
Panics == [panic |-> TRUE, text |-> <<>>]

\* time.Time.Format(time.RFC3339)
RFC3339(t) == "T" \o ToString(t)

\* seeded fault: the lines are joined with a space
RECURSIVE Join_Space(_)
Join_Space(lines) ==
    IF Len(lines) = 0 THEN <<>>
    ELSE IF Len(lines) = 1 THEN lines[1]
    ELSE lines[1] \o <<" ">> \o Join_Space(Tail(lines))

\* strings.Join(output, "\n")
RECURSIVE Join(_)
Join(lines) ==
    IF Len(lines) = 0 THEN <<>>
    ELSE IF Len(lines) = 1 THEN lines[1]
    ELSE lines[1] \o <<"\n">> \o Join(Tail(lines))

\* fmt recovers a panic of the Error or Format method it calls and prints
\* a marker in its place
FmtRecover(r) == IF r.panic THEN Ok(<<"%!v(PANIC)">>) ELSE r

RECURSIVE ErrorText(_, _)
RECURSIVE timestampError_String(_, _)
RECURSIVE FormatPlusV(_, _)
RECURSIVE FormatS(_, _)
RECURSIVE RenderAll(_, _, _)
RECURSIVE CatcherString(_, _)

\* err.Error()
ErrorText(e, seen) ==
    CASE e.kind = "leaf" -> Ok(e.text)
      [] e.kind = "verbose" -> Ok(e.text)
      [] e.kind = "ts" ->
            IF e.ref = 0 THEN Panics
            ELSE LET inner == timestampError_String(e.ref, seen)
                 IN  IF inner.panic THEN Panics
                     ELSE Ok(<<"[", RFC3339(tsHeap[e.ref].time), "], ">> \o inner.text)
      [] e.kind = "catcher" ->
            \* Error() is Resolve().Error(); Resolve() is nil when there are no errors
            IF Len(errs[e.cat]) = 0 THEN Panics ELSE CatcherString(e.cat, seen)
      [] OTHER -> Panics

\* func (e *timestampError) String() string
timestampError_String(r, seen) ==
    LET e == tsHeap[r]
    IN  IF e.err = Nil THEN Ok(<<>>)
        ELSE IF e.extended THEN FormatPlusV(e.err, seen)
        ELSE ErrorText(e.err, seen)

\* func (e *timestampError) Format(s fmt.State, verb rune), verb 's'
timestampError_Format_s(r, seen) ==
    LET inner == timestampError_String(r, seen)
    IN  IF inner.panic THEN Panics
        ELSE Ok(<<"[", RFC3339(tsHeap[r].time), "] ">> \o inner.text)

\* fmt.Sprintf("%s", err)
FormatS(e, seen) ==
    CASE e.kind = "ts" ->
            IF e.ref = 0 THEN Ok(<<"<nil>">>)
            ELSE FmtRecover(timestampError_Format_s(e.ref, seen))
      [] OTHER -> FmtRecover(ErrorText(e, seen))

\* fmt.Sprintf("%+v", err): for a timestampError the 'v' case with the plus
\* flag writes the cause and falls through to the 's' case
FormatPlusV(e, seen) ==
    CASE e.kind = "ts" ->
            IF e.ref = 0 THEN Ok(<<"<nil>">>)
            ELSE LET cause == IF tsHeap[e.ref].err = Nil THEN Ok(<<"<nil>">>)
                              ELSE FormatPlusV(tsHeap[e.ref].err, seen)
                     rest == timestampError_Format_s(e.ref, seen)
                 IN  IF rest.panic THEN FmtRecover(rest)
                     ELSE Ok(<<"[", RFC3339(tsHeap[e.ref].time), "] ">>
                             \o cause.text \o rest.text)
      [] e.kind = "verbose" -> Ok(e.text \o <<" +stack">>)
      [] OTHER -> FmtRecover(ErrorText(e, seen))

\* the element renderings of the String methods
RenderOne(v, e, seen) ==
    CASE v = "basic" -> ErrorText(e, seen)
      [] v = "simple" -> FormatS(e, seen)
      [] v = "extended" -> FormatPlusV(e, seen)
      [] OTHER -> timestampError_String(e.ref, seen)

\* output[idx] = ... for every element, in order
RenderAll(v, es, seen) ==
    IF Len(es) = 0 THEN <<>>
    ELSE <<RenderOne(v, es[1], seen)>> \o RenderAll(v, Tail(es), seen)

\* c.String(): the renderings joined with "\n"
CatcherString(c, seen) ==
    IF c \in seen THEN Panics
    ELSE LET rs == RenderAll(kind[c], errs[c], seen \cup {c})
         IN  IF \E i \in DOMAIN rs : rs[i].panic THEN Panics
             ELSE Ok(Join([i \in DOMAIN rs |-> rs[i].text]))

\* the collectors whose mutex a String of c read-locks
RECURSIVE Reads(_, _)
Reads(c, seen) ==
    IF c \in seen THEN seen
    ELSE LET held == {x \in {errs[c][i] : i \in DOMAIN errs[c]} :
                        x.kind = "ts" /\ x.ref # 0
                        /\ tsHeap[x.ref].err.kind = "catcher"}
         IN  seen \cup {c}
               \cup UNION {Reads(tsHeap[x.ref].err.cat, seen \cup {c}) : x \in held}

----------------------------------------------------------------------------
(* The read path *)

\* a method that returns o from inside one read section of its collector
ReadStep(p, label, ts, o) ==
    /\ At(p, label)
    /\ IsTs(kind[Self(p)]) = ts
    /\ CanRLock(Self(p))
    /\ calls' = Return(p, o)
    /\ UNCHANGED <<ec, kind, maxSize, errs, wlock, tsHeap, now, submitted, added>>

\* seeded fault: Errors returns c.errs itself
SameSlice(s) == [Value EXCEPT !.errs = s, !.alias = TRUE]

\* out := make([]error, len(c.errs)); copy(out, c.errs): a slice with the
\* same elements in the same order, in an array of its own
CopyOf(s) == [Value EXCEPT !.errs = s, !.alias = FALSE]

\* func (c *baseCatcher) Len() int
baseCatcher_Len(p) ==
    ReadStep(p, "Len", FALSE, [Value EXCEPT !.n = Len(errs[Self(p)])])

\* func (c *baseCatcher) HasErrors() bool
baseCatcher_HasErrors(p) ==
    ReadStep(p, "HasErrors", FALSE, [Value EXCEPT !.b = Len(errs[Self(p)]) > 0])

\* func (c *baseCatcher) Errors() []error
baseCatcher_Errors(p) ==
    ReadStep(p, "Errors", FALSE, CopyOf(errs[Self(p)]))

\* seeded fault: Resolve hands the errors over and clears the collector
ResolveStep_Clears(p, ts) ==
    /\ At(p, "Resolve")
    /\ IsTs(kind[Self(p)]) = ts
    /\ CanRLock(Self(p))
    /\ calls' = IF Len(errs[Self(p)]) > 0
                THEN Return(p, [Value EXCEPT !.text = CatcherString(Self(p), {}).text])
                ELSE Return(p, NilError)
    /\ errs' = [errs EXCEPT ![Self(p)] = <<>>]
    /\ UNCHANGED <<ec, kind, maxSize, wlock, tsHeap, now, submitted, added>>

\* Resolve: if !c.HasErrors() { return nil }
ResolveStep(p, ts) ==
    /\ At(p, "Resolve")
    /\ IsTs(kind[Self(p)]) = ts
    /\ CanRLock(Self(p))
    /\ calls' = IF Len(errs[Self(p)]) > 0
                THEN Goto(p, "Resolve.String")
                ELSE Return(p, NilError)
    /\ UNCHANGED <<ec, kind, maxSize, errs, wlock, tsHeap, now, submitted, added>>

\* func (c *baseCatcher) Resolve() error
baseCatcher_Resolve(p) == ResolveStep(p, FALSE)

\* func (c *timeAnnotatingCatcher) Resolve() error
timeAnnotatingCatcher_Resolve(p) == ResolveStep(p, TRUE)

\* a String method of the variants vs, called directly or by Resolve
\* (errors.New(c.String())); a panic of an element's rendering ends the goroutine
StringStep(p, vs) ==
    LET c == Self(p)
        r == CatcherString(c, {})
    IN  /\ At(p, "String") \/ At(p, "Resolve.String")
        /\ kind[c] \in vs
        /\ \A d \in Reads(c, {}) : CanRLock(d)
        /\ calls' = IF r.panic THEN Goto(p, "panic")
                    ELSE Return(p, [Value EXCEPT !.text = r.text])
        /\ UNCHANGED <<ec, kind, maxSize, errs, wlock, tsHeap, now, submitted, added>>

\* func (c *basicCatcher) String() string
basicCatcher_String(p) == StringStep(p, {"basic"})

\* func (c *simpleCatcher) String() string
simpleCatcher_String(p) == StringStep(p, {"simple"})

\* func (c *extendedCatcher) String() string
extendedCatcher_String(p) == StringStep(p, {"extended"})

\* func (c *timeAnnotatingCatcher) String() string
timeAnnotatingCatcher_String(p) == StringStep(p, {"timestamp", "timestampExt"})

\* func (c *timeAnnotatingCatcher) Len() int
timeAnnotatingCatcher_Len(p) ==
    ReadStep(p, "Len", TRUE, [Value EXCEPT !.n = Len(errs[Self(p)])])

\* func (c *timeAnnotatingCatcher) HasErrors() bool
timeAnnotatingCatcher_HasErrors(p) ==
    ReadStep(p, "HasErrors", TRUE, [Value EXCEPT !.b = Len(errs[Self(p)]) > 0])

\* func (c *timeAnnotatingCatcher) Errors() []error
timeAnnotatingCatcher_Errors(p) ==
    ReadStep(p, "Errors", TRUE, CopyOf(errs[Self(p)]))

\* Error: the call of c.Resolve()
ErrorStep(p, ts) ==
    /\ At(p, "Error")
    /\ IsTs(kind[Self(p)]) = ts
    /\ calls' = Push(p, [Top(p) EXCEPT !.pc = "Error.deref"], Frame("Resolve", Self(p)))
    /\ UNCHANGED <<ec, kind, maxSize, errs, wlock, tsHeap, now, submitted, added>>

\* func (c *baseCatcher) Error() string { return c.Resolve().Error() }
baseCatcher_Error(p) == ErrorStep(p, FALSE)

\* func (c *timeAnnotatingCatcher) Error() string { return c.Resolve().Error() }
timeAnnotatingCatcher_Error(p) == ErrorStep(p, TRUE)

\* .Error() on the value Resolve returned: a nil error has no method to call
Error_deref(p) ==
    /\ At(p, "Error.deref")
    /\ calls' = IF Top(p).out.nil THEN Goto(p, "panic") ELSE Return(p, Top(p).out)
    /\ UNCHANGED <<ec, kind, maxSize, errs, wlock, tsHeap, now, submitted, added>>

----------------------------------------------------------------------------
(* ErrorChannel *)

\* seeded fault: a channel takes one item more than its buffer holds
HasSpace_OneMore(buf) == Len(buf) <= ec.size

\* a send on a buffered channel goes through when the buffer has room
HasSpace(buf) == Len(buf) < ec.size

\* ec.catcher.Add(err) called from frame f, which goes on at label
CatcherAdd(p, f, e, label) ==
    /\ calls' = Push(p, [f EXCEPT !.pc = label, !.err = e],
                        [Frame("Add", f.self) EXCEPT !.err = e])
    /\ submitted' = Submit(f.self, <<e>>)

\* seeded fault: the goroutine of start forwards the error without adding it
start_ForwardOnly(p) ==
    /\ At(p, "start")
    /\ Top(p).ctx # "nil"
    /\ \/ /\ ec.done
          /\ calls' = Return(p, NoOut)
          /\ UNCHANGED ec
       \/ /\ ec.errRecv # <<>>
          /\ ec' = [ec EXCEPT !.errRecv = Tail(@), !.lateRecv = Tail(@)]
          /\ calls' = IF Head(ec.errRecv) = Nil THEN calls
                      ELSE SetTop(p, [Top(p) EXCEPT !.pc = "start.send",
                                                     !.err = Head(ec.errRecv)])
    /\ UNCHANGED <<kind, maxSize, errs, wlock, tsHeap, now, submitted, added>>

\* seeded fault: the goroutine of start receives the newest error of errRecv
start_TakesNewest(p) ==
    LET n == Len(ec.errRecv)
    IN  /\ At(p, "start")
        /\ Top(p).ctx # "nil"
        /\ \/ /\ ec.done
              /\ calls' = Return(p, NoOut)
              /\ UNCHANGED <<ec, submitted>>
           \/ /\ n > 0
              /\ ec' = [ec EXCEPT !.errRecv = SubSeq(@, 1, n - 1),
                                  !.lateRecv = SubSeq(@, 1, n - 1)]
              /\ IF ec.errRecv[n] = Nil
                 THEN UNCHANGED <<calls, submitted>>
                 ELSE CatcherAdd(p, [Top(p) EXCEPT !.ctxDone = ec.lateRecv[n]],
                                 ec.errRecv[n], "start.send")
        /\ UNCHANGED <<kind, maxSize, errs, wlock, tsHeap, now, added>>

\* func (ec *ErrorChannel) start(ctx context.Context): the select of the loop
\* (when both cases are ready, either is taken).  Either the context is done
\* and the goroutine ends, or an error is received: a nil one is skipped, any
\* other is added to the catcher.  With a nil Context, ctx.Done() panics and
\* the deferred function runs.
ErrorChannel_start(p) ==
    /\ At(p, "start")
    /\ \/ /\ Top(p).ctx = "nil"
          /\ calls' = Goto(p, "start.recover")
          /\ ec' = [ec EXCEPT !.faults = @ + 1]
          /\ UNCHANGED submitted
       \/ /\ Top(p).ctx # "nil"
          /\ ec.done
          /\ calls' = Return(p, NoOut)
          /\ UNCHANGED <<ec, submitted>>
       \/ /\ Top(p).ctx # "nil"
          /\ ec.errRecv # <<>>
          /\ ec' = [ec EXCEPT !.errRecv = Tail(@), !.lateRecv = Tail(@)]
          /\ IF Head(ec.errRecv) = Nil
             THEN UNCHANGED <<calls, submitted>>
             ELSE CatcherAdd(p, [Top(p) EXCEPT !.ctxDone = Head(ec.lateRecv)],
                             Head(ec.errRecv), "start.send")
    /\ UNCHANGED <<kind, maxSize, errs, wlock, tsHeap, now, added>>

\* seeded fault: the inner select of start has the send case only
start_send_Only(p) ==
    /\ At(p, "start.send")
    /\ HasSpace(ec.errSend)
    /\ ec' = [ec EXCEPT !.errSend = Append(@, Top(p).err)]
    /\ calls' = SetTop(p, [Top(p) EXCEPT !.pc = "start", !.ctxDone = FALSE])
    /\ UNCHANGED <<kind, maxSize, errs, wlock, tsHeap, now, submitted, added>>

\* seeded fault: after the send the goroutine stays at the inner select
start_send_Again(p) ==
    /\ At(p, "start.send")
    /\ \/ /\ ec.done
          /\ calls' = Return(p, NoOut)
          /\ UNCHANGED ec
       \/ /\ HasSpace(ec.errSend)
          /\ ec' = [ec EXCEPT !.errSend = Append(@, Top(p).err)]
          /\ UNCHANGED calls
    /\ UNCHANGED <<kind, maxSize, errs, wlock, tsHeap, now, submitted, added>>

\* start, the inner select: the error goes to errSend, or the context is done
ErrorChannel_start_send(p) ==
    /\ At(p, "start.send")
    /\ \/ /\ ec.done
          /\ calls' = Return(p, NoOut)
          /\ UNCHANGED ec
       \/ /\ HasSpace(ec.errSend)
          /\ ec' = [ec EXCEPT !.errSend = Append(@, Top(p).err)]
          /\ calls' = SetTop(p, [Top(p) EXCEPT !.pc = "start", !.ctxDone = FALSE])
    /\ UNCHANGED <<kind, maxSize, errs, wlock, tsHeap, now, submitted, added>>

\* the description of a nil pointer dereference, as %v prints it
NilDeref == "runtime error: invalid memory address or nil pointer dereference"

\* the deferred function of start returns without recording the panic
start_recover_Silent(p) ==
    /\ At(p, "start.recover")
    /\ calls' = Return(p, NoOut)
    /\ UNCHANGED <<ec, kind, maxSize, errs, wlock, tsHeap, now, submitted, added>>

\* start, the deferred function after a panic: r := recover(); r != nil;
\* ec.catcher.Errorf("channel processor encountered panic: %v", r); then the
\* goroutine ends
ErrorChannel_start_recover(p) ==
    /\ At(p, "start.recover")
    /\ calls' = IF Top(p).flat THEN Return(p, NoOut)
                ELSE Push(p, [Top(p) EXCEPT !.flat = TRUE],
                             [Frame("Errorf", Self(p)) EXCEPT
                                 !.msg = <<"channel processor encountered panic: ", "%v">>,
                                 !.args = <<NilDeref>>])
    /\ UNCHANGED <<ec, kind, maxSize, errs, wlock, tsHeap, now, submitted, added>>

\* seeded fault: Stop closes the two channels
Stop_Closes ==
    /\ ec.on
    /\ ec.stops < MaxStops
    /\ ec' = [ec EXCEPT !.done = TRUE, !.stops = @ + 1,
                        !.closed = {"errRecv", "errSend"}]
    /\ UNCHANGED <<kind, maxSize, errs, wlock, calls, tsHeap, now, submitted, added>>

\* seeded fault: Stop is not idempotent, a second call makes ec.ctx live
\* again
Stop_Toggle ==
    /\ ec.on
    /\ ec.stops < MaxStops
    /\ ec' = [ec EXCEPT !.done = ~@, !.stops = @ + 1]
    /\ UNCHANGED <<kind, maxSize, errs, wlock, calls, tsHeap, now, submitted, added>>

\* func (ec *ErrorChannel) Stop() { ec.cancel() }
ErrorChannel_Stop ==
    /\ ec.on
    /\ ec.stops < MaxStops
    /\ ec' = [ec EXCEPT !.done = TRUE, !.stops = @ + 1]
    /\ UNCHANGED <<kind, maxSize, errs, wlock, calls, tsHeap, now, submitted, added>>

\* the context given to NewErrorChannel is cancelled: ec.ctx, made of it by
\* context.WithCancel, is done
CancelParent ==
    /\ ec.on
    /\ ~ec.done
    /\ ec' = [ec EXCEPT !.done = TRUE]
    /\ UNCHANGED <<kind, maxSize, errs, wlock, calls, tsHeap, now, submitted, added>>

\* func (ec *ErrorChannel) Resolve() error { return ec.catcher.Resolve() }
ErrorChannel_Resolve(p) ==
    /\ At(p, "ec.Resolve")
    /\ calls' = Goto(p, "Resolve")
    /\ UNCHANGED <<ec, kind, maxSize, errs, wlock, tsHeap, now, submitted, added>>

\* seeded fault: Collect records the error only while the channel runs
Collect_WhileRunning(p) ==
    /\ At(p, "Collect")
    /\ IF Top(p).err = Nil
       THEN calls' = Return(p, NoOut) /\ UNCHANGED submitted
       ELSE IF ec.done
       THEN calls' = Goto(p, "Collect.send") /\ UNCHANGED submitted
       ELSE CatcherAdd(p, Top(p), Top(p).err, "Collect.send")
    /\ UNCHANGED <<ec, kind, maxSize, errs, wlock, tsHeap, now, added>>

\* func (ec *ErrorChannel) Collect(ctx context.Context, err error)
ErrorChannel_Collect(p) ==
    /\ At(p, "Collect")
    /\ IF Top(p).err = Nil
       THEN calls' = Return(p, NoOut) /\ UNCHANGED submitted
       ELSE CatcherAdd(p, Top(p), Top(p).err, "Collect.send")
    /\ UNCHANGED <<ec, kind, maxSize, errs, wlock, tsHeap, now, added>>

\* seeded fault: the select of Collect has the send case only
Collect_send_Only(p) ==
    /\ At(p, "Collect.send")
    /\ HasSpace(ec.errSend)
    /\ ec' = [ec EXCEPT !.errSend = Append(@, Top(p).err)]
    /\ calls' = Return(p, NoOut)
    /\ UNCHANGED <<kind, maxSize, errs, wlock, tsHeap, now, submitted, added>>

\* Collect, the select after the Add
ErrorChannel_Collect_send(p) ==
    /\ At(p, "Collect.send")
    /\ \/ /\ ec.user \/ ec.done
          /\ UNCHANGED ec
       \/ /\ HasSpace(ec.errSend)
          /\ ec' = [ec EXCEPT !.errSend = Append(@, Top(p).err)]
    /\ calls' = Return(p, NoOut)
    /\ UNCHANGED <<kind, maxSize, errs, wlock, tsHeap, now, submitted, added>>

\* ctx.Err() of a cancelled context: context.Canceled
CtxErr == [Value EXCEPT !.text = <<"context canceled">>]

\* seeded fault: Wait does not wait
Wait_NoSelect(p) ==
    /\ At(p, "Wait")
    /\ calls' = Goto(p, "ec.Resolve")
    /\ UNCHANGED <<ec, kind, maxSize, errs, wlock, tsHeap, now, submitted, added>>

\* seeded fault: Wait returns the resolved error in both cases
Wait_ResolveOnly(p) ==
    /\ At(p, "Wait")
    /\ ec.user \/ ec.done
    /\ calls' = Goto(p, "ec.Resolve")
    /\ UNCHANGED <<ec, kind, maxSize, errs, wlock, tsHeap, now, submitted, added>>

\* func (ec *ErrorChannel) Wait(ctx context.Context) error: the select (when
\* both contexts are done, either case is taken)
ErrorChannel_Wait(p) ==
    /\ At(p, "Wait")
    /\ \/ /\ ec.user
          /\ calls' = Return(p, CtxErr)
       \/ /\ ec.done
          /\ calls' = Goto(p, "ec.Resolve")
    /\ UNCHANGED <<ec, kind, maxSize, errs, wlock, tsHeap, now, submitted, added>>

----------------------------------------------------------------------------
(* The callers *)

\* how many errors the callers have asked the collectors to store, and how
\* many are on their way there in errRecv
Pending == Len(SelectSeq(ec.errRecv, LAMBDA e : e # Nil))
Total == BagCardinality(submitted["A"]) + BagCardinality(submitted["B"]) + Pending

\* how many the callers may submit

\* Calls that are explored concurrently with one another: on collector A, the
\* writers that store leaf errors, and one reader of the slice at a time
\* beside them.  Every other call is explored while no other call is in
\* flight.
Writer(f) ==
    /\ f.self = "A"
    /\ \/ f.op = "Add" /\ f.err.kind = "leaf"
       \/ f.op = "Extend" /\ f.list = <<Nil, ErrA, ErrEmpty>>

Reader(f) == f.self = "A" /\ f.op \in {"Len", "Errors", "Resolve"}

\* the methods of the ErrorChannel: a call of one runs beside the goroutine
\* of start
ChanOps == {"start", "Collect", "Wait", "ec.Resolve"}

Shared(f, g) ==
    \/ Writer(f) /\ (Writer(g) \/ Reader(g))
    \/ Reader(f) /\ Writer(g)
    \/ f.op \in ChanOps /\ g.op = "start"


\* the calls in flight once another call is made
Overlapped ==
    IF \E q \in Procs : q[1].alone
    THEN LET q == CHOOSE q \in Procs : q[1].alone
         IN  Step(q, [q EXCEPT ![1].alone = FALSE])
    ELSE calls

\* a goroutine calls a method: f is its frame, n the number of errors the
\* call may store
Call(f, n) ==
    /\ ec.on = (f.op \in ChanOps)
    /\ BagCardinality(calls) < NumProcs
    /\ \A q \in Procs : Shared(f, q[1])
    /\ Total + n <= (IF ec.on THEN MaxChanErrs ELSE MaxErrs)
    /\ (\E i \in DOMAIN f.list : f.list[i].kind = "catcher") \/ f.err.kind = "catcher"
          => CopiesIn(Cat("A"), submitted["A"]) + CopiesIn(Cat("B"), submitted["A"])
                < MaxCats
    /\ calls' = Overlapped (+) SetToBag({<<f>>})
    /\ UNCHANGED <<ec, kind, maxSize, errs, wlock, tsHeap, now, added>>

\* collector B is the sub-collector: it is filled by Add and merged into A
AddCalls ==
    {<<"A", e>> : e \in ErrArgs} \cup {<<"B", ErrA>>}

CallAdd(c, e) ==
    /\ Call([Frame("Add", c) EXCEPT !.err = e], Len(ToStore(c, <<e>>)))
    /\ submitted' = Submit(c, <<e>>)

CallExtend(c, es) ==
    /\ Call([Frame("Extend", c) EXCEPT !.list = es], Len(ToStore(c, es)))
    /\ submitted' = Submit(c, es)

\* the calls of the conditional and constructing methods on collector A
Form == <<"%s">>
WhenCalls ==
    {[Frame("AddWhen", "A") EXCEPT !.cond = b, !.err = e] : b \in BOOLEAN, e \in {Nil, ErrA}}
    \cup {[Frame("ExtendWhen", "A") EXCEPT !.cond = b, !.list = <<Nil, ErrA, ErrEmpty>>] :
             b \in BOOLEAN}
    \cup {[Frame("New", "A") EXCEPT !.msg = m] : m \in {<<>>, <<"a">>}}
    \cup {[Frame("NewWhen", "A") EXCEPT !.cond = b, !.msg = <<"a">>] : b \in BOOLEAN}
    \cup {[Frame("Errorf", "A") EXCEPT !.msg = m[1], !.args = m[2]] :
             m \in {<<<<>>, <<>>>>, <<<<>>, <<"a">>>>, <<<<"a">>, <<>>>>, <<Form, <<>>>>,
                   <<Form, <<"a">>>>}}
    \cup {[Frame("ErrorfWhen", "A") EXCEPT !.cond = b, !.msg = Form, !.args = <<"a">>] :
             b \in BOOLEAN}
    \cup {[Frame("Check", "A") EXCEPT !.fns = <<e>>] : e \in {Nil, ErrA}}
    \cup {[Frame("CheckWhen", "A") EXCEPT !.cond = b, !.fns = <<ErrA>>] : b \in BOOLEAN}
    \cup {[Frame("CheckExtend", "A") EXCEPT !.fns = fs] : fs \in {<<>>, <<ErrA, Nil, ErrEmpty>>}}

\* the most errors the call with frame f can pass on to be stored
MayStore(f) ==
    IF ~f.cond THEN 0
    ELSE Len(ToStore(f.self, <<f.err>> \o f.list \o f.fns))
           + (IF f.msg = <<>> THEN 0 ELSE 1)

CallWhen(f) ==
    /\ Call([f EXCEPT !.base = Len(errs[f.self])], MayStore(f))
    /\ UNCHANGED submitted

ReadCalls ==
    {<<"A", op>> : op \in {"Len", "HasErrors", "Errors", "Resolve", "String", "Error"}}
        \cup {<<"B", "Len">>}

CallRead(c, op) ==
    /\ Call([Frame(op, c) EXCEPT !.alone = (BagCardinality(calls) = 0)], 0)
    /\ UNCHANGED submitted

\* the calls of the methods of the ErrorChannel
ChanCalls ==
    {[Frame("Collect", "A") EXCEPT !.err = e] : e \in {Nil, ErrA}}
        \cup {Frame("Wait", "A"), Frame("ec.Resolve", "A")}
        \cup {[Frame("start", "A") EXCEPT !.ctx = "nil"]}

CallChan(f) ==
    /\ Call([f EXCEPT !.base = IF f.op \in {"Wait", "ec.Resolve"}
                                THEN Len(errs["A"]) ELSE 0,
                      !.ctxDone = (f.op = "Wait" /\ ec.user)],
            IF f.op = "start" THEN 1 ELSE Len(ToStore("A", <<f.err>>)))
    /\ UNCHANGED submitted

\* the errors sent on ec.In()
InArgs == {Nil, ErrA}

\* a goroutine sends e on ec.In(): the send panics on a closed channel, and
\* else waits for room in the buffer
SendIn(e) ==
    /\ ec.on
    /\ Total + (IF e = Nil THEN 0 ELSE 1) <= MaxChanErrs
    /\ IF "errRecv" \in ec.closed
       THEN ec' = [ec EXCEPT !.closedOp = TRUE]
       ELSE /\ HasSpace(ec.errRecv)
            /\ ec' = [ec EXCEPT !.errRecv = Append(@, e),
                                !.lateRecv = Append(@, ec.stops > 0)]
    /\ UNCHANGED <<kind, maxSize, errs, wlock, calls, tsHeap, now, submitted, added>>

\* a goroutine receives from ec.Out(): the oldest error of the buffer, or
\* from an empty closed channel the zero value
ReceiveOut ==
    /\ IF ec.errSend # <<>>
       THEN ec' = [ec EXCEPT !.errSend = Tail(@),
                             !.received = Append(@, Head(ec.errSend))]
       ELSE /\ "errSend" \in ec.closed
            /\ ec' = [ec EXCEPT !.closedOp = TRUE]
    /\ UNCHANGED <<kind, maxSize, errs, wlock, calls, tsHeap, now, submitted, added>>

\* the context the callers pass to Collect and Wait is cancelled
CancelUser ==
    /\ ec.on
    /\ ~ec.user
    /\ ec' = [ec EXCEPT !.user = TRUE]
    /\ UNCHANGED <<kind, maxSize, errs, wlock, calls, tsHeap, now, submitted, added>>

\* the caller of Errors writes nil into the first element of the slice it
\* got (out[0] = nil): the write lands in the array the slice points into
MutateReturned(p) ==
    LET f == Top(p)
        c == f.self
    IN  /\ At(p, "done")
        /\ f.op = "Errors"
        /\ f.out.errs # <<>>
        /\ calls' = SetTop(p, [f EXCEPT !.pc = "mutated", !.out.errs[1] = Nil])
        /\ errs' = IF f.out.alias /\ errs[c] # <<>>
                   THEN [errs EXCEPT ![c][1] = Nil]
                   ELSE errs
        /\ UNCHANGED <<ec, kind, maxSize, wlock, tsHeap, now, submitted, added>>

\* the goroutine takes the result of its call
Finish(p) ==
    /\ At(p, "done") \/ At(p, "mutated")
    /\ calls' = calls (-) SetToBag({p})
    /\ UNCHANGED <<ec, kind, maxSize, errs, wlock, tsHeap, now, submitted, added>>

Next ==
    \/ \E a \in AddCalls : CallAdd(a[1], a[2])
    \/ \E es \in ExtendArgs : CallExtend("A", es)
    \/ \E r \in ReadCalls : CallRead(r[1], r[2])
    \/ \E f \in WhenCalls : CallWhen(f)
    \/ \E f \in ChanCalls : CallChan(f)
    \/ \E e \in InArgs : SendIn(e)
    \/ ReceiveOut
    \/ CancelUser
    \/ CancelParent
    \/ ErrorChannel_Stop
    \/ \E p \in Procs : ErrorChannel_start(p)
    \/ \E p \in Procs : ErrorChannel_start_send(p)
    \/ \E p \in Procs : ErrorChannel_start_recover(p)
    \/ \E p \in Procs : ErrorChannel_Resolve(p)
    \/ \E p \in Procs : ErrorChannel_Collect(p)
    \/ \E p \in Procs : ErrorChannel_Collect_send(p)
    \/ \E p \in Procs : ErrorChannel_Wait(p)
    \/ \E p \in Procs : MutateReturned(p)
    \/ \E p \in Procs : Finish(p)
    \/ \E p \in Procs : baseCatcher_Add(p)
    \/ \E p \in Procs : baseCatcher_safeAdd(p)
    \/ \E p \in Procs : baseCatcher_safeAdd_append(p)
    \/ \E p \in Procs : timeAnnotatingCatcher_safeAdd_append(p)
    \/ \E p \in Procs : baseCatcher_safeAdd_HasErrors(p)
    \/ \E p \in Procs : baseCatcher_safeAdd_Extend(p)
    \/ \E p \in Procs : baseCatcher_Extend(p)
    \/ \E p \in Procs : baseCatcher_Len(p)
    \/ \E p \in Procs : baseCatcher_HasErrors(p)
    \/ \E p \in Procs : baseCatcher_Errors(p)
    \/ \E p \in Procs : baseCatcher_Resolve(p)
    \/ \E p \in Procs : basicCatcher_String(p)
    \/ \E p \in Procs : simpleCatcher_String(p)
    \/ \E p \in Procs : extendedCatcher_String(p)
    \/ \E p \in Procs : baseCatcher_Error(p)
    \/ \E p \in Procs : timeAnnotatingCatcher_Add(p)
    \/ \E p \in Procs : timeAnnotatingCatcher_Extend(p)
    \/ \E p \in Procs : timeAnnotatingCatcher_safeAdd(p)
    \/ \E p \in Procs : timeAnnotatingCatcher_Len(p)
    \/ \E p \in Procs : timeAnnotatingCatcher_HasErrors(p)
    \/ \E p \in Procs : timeAnnotatingCatcher_Errors(p)
    \/ \E p \in Procs : timeAnnotatingCatcher_Resolve(p)
    \/ \E p \in Procs : timeAnnotatingCatcher_String(p)
    \/ \E p \in Procs : timeAnnotatingCatcher_Error(p)
    \/ \E p \in Procs : Error_deref(p)
    \/ \E p \in Procs : baseCatcher_Errorf(p)
    \/ \E p \in Procs : baseCatcher_New(p)
    \/ \E p \in Procs : baseCatcher_AddWhen(p)
    \/ \E p \in Procs : baseCatcher_ExtendWhen(p)
    \/ \E p \in Procs : baseCatcher_ErrorfWhen(p)
    \/ \E p \in Procs : baseCatcher_NewWhen(p)
    \/ \E p \in Procs : baseCatcher_Check(p)
    \/ \E p \in Procs : baseCatcher_CheckWhen(p)
    \/ \E p \in Procs : baseCatcher_CheckExtend(p)
    \/ \E p \in Procs : timeAnnotatingCatcher_AddWhen(p)
    \/ \E p \in Procs : timeAnnotatingCatcher_ExtendWhen(p)
    \/ \E p \in Procs : timeAnnotatingCatcher_New(p)
    \/ \E p \in Procs : timeAnnotatingCatcher_NewWhen(p)
    \/ \E p \in Procs : timeAnnotatingCatcher_Errorf(p)
    \/ \E p \in Procs : timeAnnotatingCatcher_ErrorfWhen(p)
    \/ \E p \in Procs : timeAnnotatingCatcher_Check(p)
    \/ \E p \in Procs : timeAnnotatingCatcher_CheckWhen(p)
    \/ \E p \in Procs : timeAnnotatingCatcher_CheckExtend(p)

Spec == Init /\ [][Next]_vars

----------------------------------------------------------------------------
(* Properties *)

Min(a, b) == IF a < b THEN a ELSE b

\* the last n elements of s
Suffix(s, n) == SubSeq(s, Len(s) - n + 1, Len(s))

\* goroutine p holds the value its call of method op on c returned; the
\* call was made after every other call had returned, and none was made since
Returned(p, op, c) ==
    /\ BagCardinality(calls) = 1
    /\ At(p, "done")
    /\ Top(p).op = op
    /\ Self(p) = c
    /\ Top(p).alone

\* how many errors a collector of capacity size keeps of k stored ones
Kept(size, k) == IF size > 0 THEN Min(k, size) ELSE k

\* C1: a collector built with maxSize > 0 never holds more than maxSize
\* errors, in any state of any interleaving of the storing methods
C1_CapacityRespected ==
    \A c \in Catchers : maxSize[c] > 0 => Len(errs[c]) <= maxSize[c]

\* a bounded collector is full after more errors were appended than it holds
C1_Witness ==
    /\ maxSize["A"] > 0
    /\ Len(errs["A"]) = maxSize["A"]
    /\ Len(added["A"]) > maxSize["A"]

\* C2: when the calls that passed k non-nil errors (and any nil ones) to a
\* collector have returned, Len() returns min(k, maxSize) for maxSize > 0 and
\* k for maxSize <= 0
C2_LenAfterAdds ==
    \A p \in Procs : \A c \in Catchers :
        Returned(p, "Len", c)
            => Top(p).out.n = Kept(maxSize[c], BagCardinality(submitted[c]))

\* Len() returned the capacity after more errors than that were passed
C2_Witness ==
    \E p \in Procs :
        /\ Returned(p, "Len", "A")
        /\ maxSize["A"] = MaxCap
        /\ BagCardinality(submitted["A"]) > MaxCap
        /\ Top(p).out.n = MaxCap

\* the window of the appended errors a collector holds: the last
\* min(k, maxSize) of them, one less between the drop and the append
Evicting(c) == \E p \in Procs : At(p, "safeAdd.append") /\ Self(p) = c
Window(c) ==
    LET n == Kept(maxSize[c], Len(added[c]))
    IN  Suffix(added[c], IF Evicting(c) THEN n - 1 ELSE n)

\* C3: eviction is FIFO: the stored sequence is always the last min(k, N)
\* appended errors in insertion order (an insertion at capacity drops the
\* oldest and nothing else), and that is what Errors() returns
C3_FifoEviction ==
    /\ \A c \in Catchers : errs[c] = Window(c)
    /\ \A p \in Procs : \A c \in Catchers :
          Returned(p, "Errors", c) => Top(p).out.errs = Window(c)

\* Errors() returned the last MaxCap errors after an eviction of an error
\* that differs from its successor
C3_Witness ==
    \E p \in Procs :
        /\ Returned(p, "Errors", "A")
        /\ maxSize["A"] = MaxCap
        /\ Len(added["A"]) > MaxCap
        /\ added["A"][1] # added["A"][2]
        /\ Top(p).out.errs = Suffix(added["A"], MaxCap)

\* the error a stored element stands for: a *timestampError holds it
Unwrap(e) == IF e.kind = "ts" /\ e.ref # 0 THEN tsHeap[e.ref].err ELSE e
Unwrapped(es) == [i \in DOMAIN es |-> Unwrap(es[i])]

\* C4: a nil error is never stored or counted: whatever was appended to a
\* collector, by Add, Extend, the Check methods, ErrorChannel.Collect or the
\* goroutine reading In(), is one of the non-nil errors passed to it, and
\* the stored sequence holds no nil
C4_NilNeverStored ==
    \A c \in Catchers :
        /\ BagOfSeq(Unwrapped(added[c])) \sqsubseteq submitted[c]
        /\ \A i \in DOMAIN errs[c] : errs[c][i] # Nil /\ Unwrap(errs[c][i]) # Nil

\* CheckExtend has passed the nil result of its second function to Add, which
\* returned, and the collector holds the one error of the first function
C4_Witness ==
    \E p \in Procs :
        /\ At(p, "CheckExtend")
        /\ Len(Top(p).fns) >= 2
        /\ Top(p).fns[2] = Nil
        /\ Top(p).idx = 3
        /\ Len(errs["A"]) = 1
        /\ Len(added["A"]) = 1

\* the errors the call with stack p, an Add or Extend of leaf errors, has
\* still to store
PendingOf(p) ==
    LET f == p[1]
    IN  IF f.op = "Add" THEN BagOfSeq(<<Unwrap(f.err)>>)
        ELSE BagOfSeq(ToStore(f.self, SubSeq(f.list, IF f.pc = "Extend" THEN 1 ELSE f.idx,
                                             Len(f.list))))

Scale(B, k) == [e \in BagToSet(B) |-> k * CopiesIn(e, B)]

RECURSIVE PendingIn(_)
PendingIn(S) ==
    IF S = {} THEN EmptyBag
    ELSE LET p == CHOOSE p \in S : TRUE
         IN  Scale(PendingOf(p), CopiesIn(p, calls)) (+) PendingIn(S \ {p})

\* every call in flight is an Add or an Extend of leaf errors on collector A
WritersOnly == \A p \in Procs : Len(p) = 1 /\ Writer(p[1])

\* C5: under every interleaving of concurrent Add (and Extend) calls of leaf
\* errors, each error passed by a call that has stored it was appended
\* exactly once, none is lost and none is duplicated, and the collector
\* holds all of them, or the last maxSize of them when bounded
C5_ConcurrentAdd ==
    WritersOnly =>
        LET stored == submitted["A"] (-) PendingIn(Procs)
            n == Kept(maxSize["A"], BagCardinality(stored))
        IN  /\ BagOfSeq(Unwrapped(added["A"])) = stored
            /\ Len(errs["A"]) = IF Evicting("A") THEN n - 1 ELSE n
            /\ maxSize["A"] <= 0 => BagOfSeq(Unwrapped(errs["A"])) = stored

\* two goroutines are inside Add with different errors: one holds the mutex,
\* the other waits for it, and an error stored before is still there
C5_Witness ==
    \E p \in Procs, q \in Procs :
        /\ p[1].op = "Add" /\ q[1].op = "Add"
        /\ p[1].err # q[1].err
        /\ At(p, "safeAdd")
        /\ At(q, "Add")
        /\ Len(errs["A"]) = 1

\* the scheduler runs a goroutine that can take a step
FairSpec == Spec /\ WF_vars(Next)

\* C6: Add of a populated sub-collector B, holding m errors, to an unbounded
\* collector A of the flattening variant, holding n, leads to A holding
\* n + m errors, the last m being B's in order (for n up to 1, m up to 2)
C6_Flattening ==
    \A n \in {0, 1}, m \in {1, 2} :
        (/\ ~IsTs(kind["A"]) /\ maxSize["A"] <= 0
         /\ Len(errs["A"]) = n /\ Len(errs["B"]) = m
         /\ \E p \in Procs : At(p, "Add") /\ Self(p) = "A" /\ Top(p).err = Cat("B"))
        ~> (Len(errs["A"]) = n + m /\ Suffix(errs["A"], m) = errs["B"])

\* goroutine p holds the mutex of collector c: one of its frames is between
\* c.mutex.Lock() and the deferred Unlock
Holds(p, c) ==
    \E i \in DOMAIN p :
        /\ p[i].self = c
        /\ p[i].pc \in {"safeAdd", "safeAdd.append", "flatten", "flatten.Extend"}

\* goroutine p is about to take the mutex of collector c, for writing or reading
WaitsFor(p, c) ==
    \/ /\ Self(p) = c
       /\ \/ At(p, "Add") /\ Top(p).err # Nil
          \/ At(p, "Extend") /\ Len(Top(p).list) > 0
          \/ Top(p).pc \in {"Len", "HasErrors", "Errors", "Resolve", "String",
                            "Resolve.String"}
    \/ /\ Top(p).err = Cat(c)
       /\ At(p, "flatten") \/ (At(p, "flatten.Extend") /\ ~Top(p).flat)

\* C7: a call waits only for a mutex that another goroutine holds and will
\* release: no goroutine waits for a mutex it holds itself, which would block
\* it forever
C7_CallsReturn ==
    \A p \in Procs : \A c \in Catchers : WaitsFor(p, c) => ~Holds(p, c)

\* C8: no public operation panics
C8_NoPanic == \A p \in Procs : ~At(p, "panic")

\* the step is taken by a goroutine inside Resolve
InResolve(p) == p[1].op = "Resolve" /\ ~At(p, "done")
ResolveSteps == \E p \in Procs : InResolve(p) /\ CopiesIn(p, calls') < CopiesIn(p, calls)

\* what Resolve returns in this state
ResolveNow(c) ==
    IF Len(errs[c]) = 0 THEN NilError
    ELSE [Value EXCEPT !.text = CatcherString(c, {}).text]

\* C9: Resolve is a pure read: no step of Resolve changes the stored sequence
\* (or anything else of the collector), and while the collector is not
\* mutated, the aggregate a Resolve returned has the text a second Resolve
\* returns
C9_ResolvePureRead ==
    /\ [][ResolveSteps => UNCHANGED <<errs, added, tsHeap, maxSize, kind, wlock>>]_vars
    /\ [](\A p \in Procs : \A c \in Catchers :
            Returned(p, "Resolve", c) => Top(p).out = ResolveNow(c))

\* Resolve returned an aggregate of every error ever appended
C9_Witness ==
    \E p \in Procs :
        /\ Returned(p, "Resolve", "A")
        /\ ~Top(p).out.nil
        /\ Len(errs["A"]) = MaxErrs
        /\ errs["A"] = added["A"]

\* the lines joined with "\n"
RECURSIVE NewlineJoin(_)
NewlineJoin(lines) ==
    IF lines = <<>> THEN <<>>
    ELSE IF Len(lines) = 1 THEN Head(lines)
    ELSE Head(lines) \o <<"\n">> \o NewlineJoin(Tail(lines))

\* the rendering of the i-th stored error under the collector's policy
Rendering(c, i) == RenderOne(kind[c], errs[c][i], {c}).text

\* C10: in a quiescent state Resolve() returns nil exactly when the
\* collector is empty, HasErrors() is false exactly then, and String() is
\* empty then; otherwise Resolve() returns an aggregate whose text is the
\* renderings of the stored errors, in insertion order, joined with newlines
C10_ResolveText ==
    \A p \in Procs : \A c \in Catchers :
        /\ Returned(p, "Resolve", c) =>
              /\ Top(p).out.nil <=> Len(errs[c]) = 0
              /\ ~Top(p).out.nil =>
                    Top(p).out.text
                        = NewlineJoin([i \in DOMAIN errs[c] |-> Rendering(c, i)])
        /\ Returned(p, "HasErrors", c) => (Top(p).out.b <=> Len(errs[c]) > 0)
        /\ Returned(p, "String", c) /\ Len(errs[c]) = 0 => Top(p).out.text = <<>>

\* Resolve returned the two-line aggregate of two different errors
C10_Witness ==
    \E p \in Procs :
        /\ Returned(p, "Resolve", "A")
        /\ Len(errs["A"]) = 2
        /\ errs["A"][1] # errs["A"][2]
        /\ Top(p).out.text = Rendering("A", 1) \o <<"\n">> \o Rendering("A", 2)

\* goroutine p holds the slice Errors returned to it
HoldsErrors(p) == Top(p).op = "Errors" /\ (At(p, "done") \/ At(p, "mutated"))

\* C11: Errors() returns a copy: a write of the caller into the returned
\* slice changes nothing of the collector (stored sequence, hence Len() and
\* the text of Resolve()), and no step of another goroutine, a later Add
\* included, changes a slice that was returned
C11_ErrorsIsCopy ==
    /\ [][(\E p \in Procs : MutateReturned(p))
            => UNCHANGED <<errs, added, tsHeap, maxSize, kind, wlock>>]_vars
    /\ [][\A p \in Procs :
            HoldsErrors(p) /\ ~MutateReturned(p) /\ ~Finish(p)
                => \E q \in BagToSet(calls') :
                      HoldsErrors(q) /\ Top(q).out.errs = Top(p).out.errs]_vars

\* the caller has overwritten the first element of the slice it got, and the
\* collector still holds the two errors it held
C11_Witness ==
    \E p \in Procs :
        /\ HoldsErrors(p)
        /\ At(p, "mutated")
        /\ Len(Top(p).out.errs) = 2
        /\ Top(p).out.errs[1] = Nil
        /\ Len(errs["A"]) = 2
        /\ errs["A"][1] # Nil

\* the goroutine of start that NewErrorChannel made is still running
TaskRuns == \E p \in Procs : p[1].op = "start" /\ p[1].ctx = "ctx"

\* goroutine p is in Collect, at the select that sends on errSend
Sending(p) == Len(p) = 1 /\ Top(p).op = "Collect" /\ At(p, "Collect.send")

\* e is one of the errors of the sequence es
InSeq(e, es) == \E i \in DOMAIN es : es[i] = e

\* C12: Collect with a non-nil error records before it forwards: the step in
\* which the Add of Collect returns has appended exactly that error to the
\* collector (Len grows by one), and whenever a Collect is at its select the
\* collector holds its error, whatever the state of the queues, of the two
\* contexts and of the goroutine of start
C12_CollectRecordsFirst ==
    /\ [](\A p \in Procs : Sending(p) => InSeq(Top(p).err, errs["A"]))
    /\ [][\A p \in Procs :
            /\ Len(p) = 2
            /\ p[1].op = "Collect"
            /\ calls' = Step(p, <<p[1]>>)
            => /\ p[1].err # Nil
               /\ errs'["A"] = Append(errs["A"], p[1].err)
               /\ Sending(<<p[1]>>)]_vars

\* a Collect is at its select with its error recorded while the outbound
\* queue is full, both contexts are cancelled and the goroutine of start is
\* gone
C12_Witness ==
    \E p \in Procs :
        /\ Sending(p)
        /\ ~HasSpace(ec.errSend)
        /\ ec.done
        /\ ec.user
        /\ ~TaskRuns
        /\ Len(errs["A"]) = 2
        /\ errs["A"][2] = Top(p).err

\* the errors that went out: those waiting in errSend and those a consumer
\* has received from Out()
Forwarded == ec.errSend \o ec.received

\* C13: record before forward: every error in the outbound queue or received
\* from Out() is one of the errors the collector stores, each as often as it
\* went out, and an error is put on the outbound queue only when the
\* collector already holds it; forwarded by Collect or by the goroutine of
\* start alike
C13_RecordBeforeForward ==
    /\ [](BagOfSeq(Forwarded) \sqsubseteq BagOfSeq(errs["A"]))
    /\ [][Len(ec'.errSend) > Len(ec.errSend)
            => InSeq(ec'.errSend[Len(ec'.errSend)], errs["A"])]_vars

\* the goroutine of start has forwarded an error sent on In(): a consumer
\* has received an error from Out(), a second one waits in the outbound
\* queue, and the collector holds both
C13_Witness ==
    /\ \E p \in Procs : p[1].op = "start" /\ At(p, "start") /\ p[1].err # Nil
    /\ Len(ec.received) = 1
    /\ Len(ec.errSend) = 1
    /\ Len(errs["A"]) = 2

\* the goroutine of start has in hand an error that was sent on In() after
\* a call of Stop had returned
HoldsLate(p) == p[1].op = "start" /\ p[1].ctxDone

\* C14: after Stop() has returned, incoming errors are no longer processed:
\* the goroutine of start neither records an error that was sent on In()
\* after that point nor places it on the outbound queue
C14_NoProcessingAfterStop ==
    [][\A p \in Procs :
          HoldsLate(p) =>
              /\ baseCatcher_safeAdd(p) => errs' = errs
              /\ ErrorChannel_start_send(p) => ec'.errSend = ec.errSend]_vars

\* the errors waiting in the inbound queue that were sent on In() before any
\* call of Stop; the goroutine of start is the only receiver, so none of
\* them has been recorded
EarlyWaiting ==
    {i \in DOMAIN ec.errRecv : ec.errRecv[i] # Nil /\ ~ec.lateRecv[i]}

\* C15: items in flight at Stop() are always recorded: once Stop() was
\* called and the goroutine of start has exited, every non-nil error the
\* inbound queue accepted before Stop() was called is in the collector, so
\* none is left waiting in errRecv
C15_InFlightRecorded == ec.stops > 0 /\ ~TaskRuns => EarlyWaiting = {}

\* the calls of the methods of the ErrorChannel that block
BlockingCalls == {f \in ChanCalls : f.op \in {"Collect", "Wait"}}

\* The blocking operations of the ErrorChannel on their own: the calls of
\* Collect and Wait, the sends, receives and cancellations its users make,
\* and the steps of the goroutines inside its methods
ChanNext ==
    \/ \E f \in BlockingCalls : CallChan(f)
    \/ \E e \in InArgs : SendIn(e)
    \/ ReceiveOut
    \/ CancelUser
    \/ CancelParent
    \/ ErrorChannel_Stop
    \/ \E p \in Procs : Finish(p)
    \/ \E p \in Procs : ErrorChannel_start(p)
    \/ \E p \in Procs : ErrorChannel_start_send(p)
    \/ \E p \in Procs : ErrorChannel_Resolve(p)
    \/ \E p \in Procs : ErrorChannel_Collect(p)
    \/ \E p \in Procs : ErrorChannel_Collect_send(p)
    \/ \E p \in Procs : ErrorChannel_Wait(p)
    \/ \E p \in Procs : baseCatcher_Add(p)
    \/ \E p \in Procs : baseCatcher_safeAdd(p)
    \/ \E p \in Procs : baseCatcher_Resolve(p)
    \/ \E p \in Procs : extendedCatcher_String(p)

\* A goroutine that can take a step of a method takes it: the Go scheduler
\* runs every runnable goroutine.  Nothing obliges the users to call, to
\* send, to receive from Out() or to cancel.
ChanFairness ==
    /\ WF_vars(\E p \in Procs : ErrorChannel_start(p))
    /\ WF_vars(\E p \in Procs : ErrorChannel_start_send(p))
    /\ WF_vars(\E p \in Procs : ErrorChannel_Resolve(p))
    /\ WF_vars(\E p \in Procs : ErrorChannel_Collect(p))
    /\ WF_vars(\E p \in Procs : ErrorChannel_Collect_send(p))
    /\ WF_vars(\E p \in Procs : ErrorChannel_Wait(p))
    /\ WF_vars(\E p \in Procs : baseCatcher_Add(p))
    /\ WF_vars(\E p \in Procs : baseCatcher_safeAdd(p))
    /\ WF_vars(\E p \in Procs : baseCatcher_Resolve(p))
    /\ WF_vars(\E p \in Procs : extendedCatcher_String(p))

ChanFairSpec == ChanInit /\ [][ChanNext]_vars /\ ChanFairness

\* a goroutine is in the select of Collect, of the forward step of start, of
\* Wait; a goroutine is inside a call of Wait that has not returned
CollectBlocked == \E p \in Procs : Sending(p)
ForwardBlocked == \E p \in Procs : p[1].op = "start" /\ At(p, "start.send")
WaitBlocked == \E p \in Procs : At(p, "Wait")
InWait == \E p \in Procs : p[1].op = "Wait" /\ ~At(p, "done")

\* C16: cancellation unblocks.  Once ec.ctx is done (Stop, or the parent
\* context cancelled) a Collect in its select returns, the goroutine of start
\* leaves its forward step and a Wait returns; once the caller's context is
\* done a Collect in its select and a Wait return; whether or not anybody
\* receives from Out().  (One call of Collect or Wait is in flight at a time.)
C16_CancellationUnblocks ==
    /\ (CollectBlocked /\ (ec.done \/ ec.user)) ~> ~CollectBlocked
    /\ (ForwardBlocked /\ ec.done) ~> ~ForwardBlocked
    /\ (WaitBlocked /\ (ec.done \/ ec.user)) ~> ~InWait

\* a Collect stands at its select with the outbound queue full, the goroutine
\* of start stands in its forward step, and Stop has been called
C16_Witness ==
    /\ CollectBlocked
    /\ ForwardBlocked
    /\ ~HasSpace(ec.errSend)
    /\ ec.done
    /\ ec.stops > 0

\* what Resolve returns for a collector c that stores the errors es: nil for
\* none, else the error whose text is their aggregate
AggregateOf(c, es) ==
    IF es = <<>> THEN NilError
    ELSE LET rs == RenderAll(kind[c], es, {c})
         IN  [Value EXCEPT !.text = Join([i \in DOMAIN rs |-> rs[i].text])]

\* the values Resolve can return during a call that began when the collector
\* stored its first n errors: those of the sequences stored since
ResolvedSince(c, n) ==
    {AggregateOf(c, SubSeq(errs[c], 1, k)) : k \in n..Len(errs[c])}

\* goroutine p holds the value its call of Wait returned
WaitReturned(p) == Top(p).op = "Wait" /\ At(p, "done")

\* C17: Wait does not leave its select while both the context it was given
\* and ec.ctx are live; the value it returns is context.Canceled after the
\* caller's context was done, and else, after ec.ctx was done (Stop or the
\* parent cancelled), what Resolve returns: nil when the collector is empty,
\* else the aggregate of the errors collected
C17_WaitResult ==
    /\ [][\A p \in Procs :
            At(p, "Wait") /\ CopiesIn(p, calls') < CopiesIn(p, calls)
                => ec.user \/ ec.done]_vars
    /\ [](\A p \in Procs :
            WaitReturned(p) =>
                \/ ec.user /\ Top(p).out = CtxErr
                \/ ec.done /\ Top(p).out \in ResolvedSince("A", Top(p).base))

\* Wait has returned the aggregate of two collected errors after Stop, the
\* caller's context being live
C17_Witness ==
    \E p \in Procs :
        /\ WaitReturned(p)
        /\ ~ec.user
        /\ ec.stops > 0
        /\ Len(errs["A"]) = 2
        /\ Top(p).out = AggregateOf("A", errs["A"])

\* goroutine p holds the value returned by a call of Wait whose context was
\* cancelled before the call
WaitCancelled(p) == WaitReturned(p) /\ Top(p).ctxDone

\* C18 as stated: Wait called with a context that is already cancelled
\* returns context.Canceled, not the aggregate of the collector
C18_WaitPropagatesCancel ==
    \A p \in Procs : WaitCancelled(p) => Top(p).out = CtxErr

\* C18, amended: Wait called with a context that is already cancelled returns
\* context.Canceled while ec.ctx is live; when ec.ctx is done as well (Stop
\* was called or the parent cancelled) it returns either context.Canceled or
\* what Resolve returns
C18_WaitPropagatesCancelWhileLive ==
    \A p \in Procs :
        WaitCancelled(p) =>
            /\ ~ec.done => Top(p).out = CtxErr
            /\ Top(p).out # CtxErr => Top(p).out \in ResolvedSince("A", Top(p).base)

\* Wait, called with a cancelled context on a running channel that has
\* collected an error, has returned context.Canceled
C18_Witness ==
    \E p \in Procs :
        /\ WaitCancelled(p)
        /\ ~ec.done
        /\ Len(errs["A"]) > 0
        /\ Top(p).base > 0
        /\ Top(p).out = CtxErr

\* the error the deferred function of start records for a panic
PanicError == Leaf(<<"channel processor encountered panic: ", NilDeref>>)

\* how many goroutines are inside the calls of the set S
RECURSIVE CountIn(_)
CountIn(S) ==
    IF S = {} THEN 0
    ELSE LET p == CHOOSE p \in S : TRUE
         IN  CopiesIn(p, calls) + CountIn(S \ {p})

\* the goroutines in the loop of start, and those in its deferred function
\* that have not recorded their panic yet
Looping == CountIn({p \in Procs : p[1].op = "start" /\ p[1].pc \in {"start", "start.send"}})
Recovering ==
    CountIn({p \in Procs : p[1].pc = "start.recover" /\ ~(Len(p) = 1 /\ p[1].flat)})

\* how many times the collector stores the error of a panic
PanicsRecorded == Len(SelectSeq(errs["A"], LAMBDA e : e = PanicError))

\* C19: a panic in the goroutine of start is contained: it is recovered in
\* start and never leaves a goroutine of the channel; exactly one error whose
\* text is "channel processor encountered panic: " and the description of the
\* panic is recorded for it; the goroutine then ends, and no goroutine enters
\* the loop of start again except by a new call of start
C19_FaultContained ==
    /\ [](ec.on => \A p \in Procs : ~At(p, "panic"))
    /\ [](PanicsRecorded + Recovering = ec.faults)
    /\ [][\A p \in Procs :
            Len(p) = 1 /\ p[1].pc = "start.recover" /\ p[1].flat
                /\ CopiesIn(p, calls') < CopiesIn(p, calls)
            => BagCardinality(calls') < BagCardinality(calls)]_vars
    /\ [][Looping' > Looping => BagCardinality(calls') > BagCardinality(calls)]_vars

\* start has panicked once, the goroutine is gone and the collector holds
\* the one error recorded for the panic, after an error collected before
C19_Witness ==
    /\ ec.faults = 1
    /\ \A p \in Procs : p[1].ctx # "nil"
    /\ errs["A"] = <<ErrA, PanicError>>

\* s is an initial part of t
IsPrefix(s, t) == Len(s) <= Len(t) /\ SubSeq(t, 1, Len(s)) = s

\* goroutine p holds the value its call of ec.Resolve returned
ResolveReturned(p) == Top(p).op = "ec.Resolve" /\ At(p, "done")

\* C20: Stop is idempotent and discards nothing.  A call of Stop leaves
\* ec.ctx done and changes nothing else of the channel and nothing of the
\* collector, a repeated call changes nothing at all; no step of the channel
\* removes a recorded error; and Resolve, before, between and after calls of
\* Stop, returns the aggregate of the errors recorded so far (nil for none)
C20_StopIdempotent ==
    /\ [][ec'.stops # ec.stops =>
            /\ ec' = [ec EXCEPT !.done = TRUE, !.stops = ec'.stops]
            /\ UNCHANGED <<kind, maxSize, errs, wlock, calls, tsHeap, submitted, added>>]_vars
    /\ [][ec.on => IsPrefix(errs["A"], errs'["A"])]_vars
    /\ [](\A p \in Procs :
            ResolveReturned(p) => Top(p).out \in ResolvedSince("A", Top(p).base))

\* after two calls of Stop, Resolve has returned the aggregate of the two
\* errors recorded before them
C20_Witness ==
    \E p \in Procs :
        /\ ResolveReturned(p)
        /\ ec.stops = 2
        /\ Len(errs["A"]) = 2
        /\ Top(p).base = 2
        /\ Top(p).out = AggregateOf("A", errs["A"])

\* C21: neither queue of an ErrorChannel is ever closed: in every reachable
\* state, those after Stop, after the cancellation of the parent context and
\* after a panic of start included, no channel is closed, no send on In()
\* has panicked on a closed channel and no receive from Out() has found the
\* channel closed
C21_NeverClosed == ec.closed = {} /\ ~ec.closedOp

\* after Stop and after a panic of start, the goroutine of start gone, a
\* send on In() was accepted and an error was received from Out()
C21_Witness ==
    /\ ec.stops > 0
    /\ ec.faults > 0
    /\ ~TaskRuns
    /\ \E i \in DOMAIN ec.lateRecv : ec.lateRecv[i]
    /\ ec.received # <<>>

\* the collectors that were passed as errors to collector c
CatsPassed(c) == {e \in BagToSet(submitted[c]) : e.kind = "catcher"}

C26_ExtendedFlag ==
    \A c \in Catchers :
        IsTs(kind[c]) =>
            \A i \in DOMAIN errs[c] :
                errs[c][i].ref # 0 => tsHeap[errs[c][i].ref].extended = extended(c)

\* the line '[<RFC3339 capture instant>] <error text>' of the i-th stored
\* element of timestamp collector c
StampedLine(c, i) ==
    LET e == tsHeap[errs[c][i].ref]
    IN  <<"[", RFC3339(e.time), "] ">> \o ErrorText(e.err, {c}).text

\* C27: the resolved text of a timestamp collector renders each stored error
\* with its capture timestamp: Resolve() and String() return the lines
\* '[<RFC3339 capture instant>] <error text>', one for each stored error
\* in insertion order (here for stored leaf errors)
C27_TimestampedText ==
    \A p \in Procs : \A c \in Catchers :
        /\ IsTs(kind[c])
        /\ Returned(p, "Resolve", c) \/ Returned(p, "String", c)
        /\ Len(errs[c]) > 0
        /\ \A i \in DOMAIN errs[c] : Unwrap(errs[c][i]).kind = "leaf"
        => Top(p).out.text = NewlineJoin([i \in DOMAIN errs[c] |-> StampedLine(c, i)])

\* the conditional methods and the method each one ends in
WhenOps == {"AddWhen", "ExtendWhen", "NewWhen", "ErrorfWhen", "CheckWhen"}
Unconditional(op) ==
    CASE op = "AddWhen" -> "Add"
      [] op = "ExtendWhen" -> "Extend"
      [] op = "NewWhen" -> "New"
      [] op = "ErrorfWhen" -> "Errorf"
      [] op = "CheckWhen" -> "Check"

\* the goroutine p is about to run the conditional method it called
Entering(p) == Len(p) = 1 /\ Top(p).op \in WhenOps /\ At(p, Top(p).op)

\* the frame of the call of the unconditional form with the arguments of f,
\* and, for the forms that pass an error on at once, the frame in which that
\* call reaches Add
CalledPlain(f) ==
    LET g == [f EXCEPT !.pc = Unconditional(f.op)]
    IN  IF f.op = "CheckWhen"
        THEN [g EXCEPT !.pc = "Add", !.err = f.fns[1], !.invoked = 1]
        ELSE g

\* the errors the unconditional form hands to the collector when called
PlainSubmits(f) ==
    CASE f.op = "AddWhen" -> <<f.err>>
      [] f.op = "ExtendWhen" -> f.list
      [] f.op = "CheckWhen" -> <<f.fns[1]>>
      [] OTHER -> <<>>

\* C28: a conditional method (AddWhen, ExtendWhen, NewWhen, ErrorfWhen,
\* CheckWhen) called with a false condition returns with the stored sequence
\* unchanged and, for CheckWhen, without a call of the function; called with
\* a true condition it goes on exactly as the call of its unconditional form
\* with the same arguments does
C28_ConditionalOps ==
    [][\A p \in Procs :
          Entering(p) /\ calls' # calls =>
              IF Top(p).cond
              THEN /\ calls' = SetTop(p, CalledPlain(Top(p)))
                   /\ submitted' = Submit(Self(p), PlainSubmits(Top(p)))
                   /\ UNCHANGED <<errs, added, tsHeap>>
              ELSE /\ calls' = calls (-) SetToBag({p})
                   /\ Top(p).invoked = 0
                   /\ UNCHANGED <<errs, added, tsHeap, submitted>>]_vars

\* CheckWhen(false, fn) is about to run on a collector that holds an error
C28_Witness ==
    \E p \in Procs :
        /\ Entering(p)
        /\ Top(p).op = "CheckWhen"
        /\ ~Top(p).cond
        /\ Len(errs[Self(p)]) > 0

\* how many of the first n functions of fns return an error
Failing(fns, n) == Cardinality({i \in 1..n : fns[i] # Nil})

\* C29: CheckExtend(fns) calls every function once, in the order of the
\* slice, whatever the earlier ones returned: the functions called so far are
\* the first ones of the slice, each passed to Add as it returns, and the
\* call returns only when all were called; when it returns, an unbounded
\* collector holds as many more errors as functions returned one
C29_CheckExtend ==
    /\ [](\A p \in Procs : p[1].op = "CheckExtend" =>
            LET f == p[1]
            IN  /\ f.invoked = f.idx - 1
                /\ f.invoked <= Len(f.fns)
                /\ Len(p) > 1 => p[2].op = "Add"
                /\ Len(p) > 1 /\ p[2].pc = "Add" => p[2].err = f.fns[f.invoked]
                /\ Len(p) = 1 /\ maxSize[f.self] <= 0 =>
                       Len(errs[f.self]) = f.base + Failing(f.fns, f.invoked))
    /\ [][\A p \in Procs : p[1].op = "CheckExtend" =>
            /\ p \notin BagToSet(calls') /\ BagCardinality(calls') < BagCardinality(calls) =>
                   Len(p) = 1 /\ p[1].invoked = Len(p[1].fns)
            /\ \A q \in BagToSet(calls') : q[1].invoked \in {p[1].invoked, p[1].invoked + 1}]_vars

\* CheckExtend of three functions, the second of which returns nil, is about
\* to return: all three were called and the unbounded collector, which held
\* an error before, holds two more
C29_Witness ==
    \E p \in Procs :
        /\ p[1].op = "CheckExtend" /\ Len(p) = 1
        /\ p[1].invoked = 3
        /\ p[1].fns[2] = Nil
        /\ maxSize[Self(p)] <= 0
        /\ p[1].base = 1
        /\ Len(errs[Self(p)]) = 3

\* the calls of New and Errorf, and the text of the error each one makes
Constructing(p) == Len(p) = 1 /\ p[1].op \in {"New", "Errorf"}
MessageOf(f) ==
    IF f.op = "Errorf" /\ f.args # <<>> THEN Sprintf(f.msg, f.args) ELSE f.msg

\* C30: New(message) and Errorf(format, args...) return without a change to
\* the collector when the message or the format is empty, arguments or not;
\* otherwise the call appends one error, whose text is the message, the
\* format with its arguments filled in, or, for Errorf without arguments,
\* the format as it stands
C30_NewErrorf ==
    [][\A p \in Procs :
          Constructing(p) /\ BagCardinality(calls') < BagCardinality(calls) =>
              LET f == p[1]
                  c == f.self
              IN  IF f.msg = <<>>
                  THEN /\ At(p, f.op)
                       /\ UNCHANGED <<errs, submitted, added, tsHeap>>
                  ELSE (/\ Len(errs[c]) = Kept(maxSize[c], f.base + 1)
                        /\ Unwrap(errs[c][Len(errs[c])]) = Leaf(MessageOf(f)))']_vars

\* Errorf("%s") has returned: the collector, which held an error before,
\* holds one more, and its text is "%s"
C30_Witness ==
    /\ calls = EmptyBag
    /\ Len(errs["A"]) = 2
    /\ Unwrap(errs["A"][2]) = Leaf(Form)

----------------------------------------------------------------------------
(* The wrapping functions.  A caller wraps an error, holds the result for a *)
(* while, and passes it on: to WrapErrorTime again, or to Add, Check or     *)
(* Extend of collector A.                                                   *)

MaxWraps == 2
MaxNow == 3


WrapCalls ==
    {[Frame("WrapErrorTime", "A") EXCEPT !.err = e] : e \in {Nil, ErrA, ErrStack}}
    \cup {[Frame("WrapErrorTimeMessage", "A") EXCEPT !.err = e, !.msg = <<"m">>] :
             e \in {Nil, ErrA}}
    \cup {[Frame("WrapErrorTimeMessagef", "A") EXCEPT !.err = e, !.msg = Form,
                                                        !.args = <<"m">>] :
             e \in {Nil, ErrA}}

CallWrap(f) ==
    /\ calls = EmptyBag
    /\ Len(tsHeap) < MaxWraps
    /\ calls' = SetToBag({<<f>>})
    /\ UNCHANGED <<ec, kind, maxSize, errs, wlock, tsHeap, now, submitted, added>>

\* the error value a function returns: a nil *timestampError returned as an
\* error is an interface value that holds a type, and is not nil
ErrorOf(r) == [Value EXCEPT !.errs = <<Ts(r)>>]

\* func WrapErrorTime(err error) error { return newTimeStampError(err) }
WrapErrorTime(p) ==
    LET w == newTimeStampError(Top(p).err)
    IN  /\ At(p, "WrapErrorTime")
        /\ tsHeap' = w.heap
        /\ now' = IF w.heap = tsHeap THEN now ELSE now + 1
        /\ calls' = Return(p, ErrorOf(w.ref))
        /\ UNCHANGED <<ec, kind, maxSize, errs, wlock, submitted, added>>

\* func WrapErrorTimeMessage(err error, m string) error: nil for nil, else
\* newTimeStampError(fmt.Errorf("%s: %w", m, err)); the errors passed here
\* are leaves, whose Error() is their text
WrapErrorTimeMessage(p) ==
    LET f == Top(p)
        w == newTimeStampError(Leaf(f.msg \o <<": ">> \o f.err.text))
    IN  /\ At(p, "WrapErrorTimeMessage")
        /\ IF f.err = Nil
           THEN /\ calls' = Return(p, NilError)
                /\ UNCHANGED <<tsHeap, now>>
           ELSE /\ tsHeap' = w.heap
                /\ now' = now + 1
                /\ calls' = Return(p, ErrorOf(w.ref))
        /\ UNCHANGED <<ec, kind, maxSize, errs, wlock, submitted, added>>

\* func WrapErrorTimeMessagef: WrapErrorTimeMessage(err, fmt.Sprintf(m, args...))
WrapErrorTimeMessagef(p) ==
    /\ At(p, "WrapErrorTimeMessagef")
    /\ calls' = SetTop(p, [Top(p) EXCEPT !.pc = "WrapErrorTimeMessage",
                                         !.msg = Sprintf(@, Top(p).args)])
    /\ UNCHANGED <<ec, kind, maxSize, errs, wlock, tsHeap, now, submitted, added>>

\* goroutine p holds the result of a wrapping function; Held is that error
Holding(p) ==
    /\ At(p, "done")
    /\ Top(p).op \in {"WrapErrorTime", "WrapErrorTimeMessage", "WrapErrorTimeMessagef"}
Held(p) == IF Top(p).out.nil THEN Nil ELSE Top(p).out.errs[1]

\* time passes while the caller holds the result
Tick(p) ==
    /\ Holding(p)
    /\ now < MaxNow
    /\ now' = now + 1
    /\ UNCHANGED <<ec, kind, maxSize, errs, wlock, calls, tsHeap, submitted, added>>

\* the caller passes the error it holds to WrapErrorTime, to Add, as the
\* result of the function given to Check, or, a timestampError, in a slice
\* to Extend of a timestamp collector
PassOn(p, op) ==
    LET v == Held(p)
        es == IF op = "Extend" THEN <<v, ErrA>> ELSE <<v>>
        f == CASE op = "WrapErrorTime" -> [Frame(op, "A") EXCEPT !.err = v]
               [] op = "Add" -> [Frame(op, "A") EXCEPT !.err = v]
               [] op = "Check" -> [Frame(op, "A") EXCEPT !.fns = es]
               [] op = "Extend" -> [Frame(op, "A") EXCEPT !.list = es]
    IN  /\ Holding(p)
        /\ op = "WrapErrorTime" => v # Nil
        /\ op = "Extend" => IsTs(kind["A"]) /\ v # Nil /\ v.ref # 0
        /\ op # "WrapErrorTime" => Total + Len(ToStore("A", es)) <= MaxErrs
        /\ calls' = SetToBag({<<[f EXCEPT !.base = Len(errs["A"])]>>})
        /\ submitted' = IF op \in {"Add", "Extend"} THEN Submit("A", es) ELSE submitted
        /\ UNCHANGED <<ec, kind, maxSize, errs, wlock, tsHeap, now, added>>

\* the caller passes an error that timestamp collector A stores, taken from
\* A.Errors(), to Add or Extend of timestamp collector B
PassStored(op) ==
    \E i \in DOMAIN errs["A"] :
        LET v == errs["A"][i]
            f == IF op = "Add" THEN [Frame(op, "B") EXCEPT !.err = v]
                 ELSE [Frame(op, "B") EXCEPT !.list = <<v>>]
        IN  /\ calls = EmptyBag
            /\ IsTs(kind["A"]) /\ IsTs(kind["B"])
            /\ Total + 1 <= MaxErrs
            /\ calls' = SetToBag({<<[f EXCEPT !.base = Len(errs["B"])]>>})
            /\ submitted' = Submit("B", <<v>>)
            /\ UNCHANGED <<ec, kind, maxSize, errs, wlock, tsHeap, now, added>>

\* collector A is of any variant; beside a timestamp collector A, collector B
\* is a timestamp collector of either rendering flag
WrapInit ==
    /\ \E v \in Variants, w \in {"timestamp", "timestampExt"}, size \in SizeArgs :
          /\ kind = [c \in Catchers |-> IF c = "A" THEN v
                                        ELSE IF IsTs(v) THEN w ELSE "basic"]
          /\ maxSize = [c \in Catchers |->
                          IF c = "A"
                          THEN IF IsTs(v) THEN MakeTimestampCatcher(size)
                                          ELSE MakeBasicCatcher(size)
                          ELSE 0]
    /\ calls = EmptyBag
    /\ ec = NoChannel
    /\ Fresh

WrapNext ==
    \/ \E f \in WrapCalls : CallWrap(f)
    \/ \E p \in Procs : WrapErrorTime(p)
    \/ \E p \in Procs : WrapErrorTimeMessage(p)
    \/ \E p \in Procs : WrapErrorTimeMessagef(p)
    \/ \E p \in Procs : Tick(p)
    \/ \E p \in Procs : \E op \in {"WrapErrorTime", "Add", "Check", "Extend"} : PassOn(p, op)
    \/ \E op \in {"Add", "Extend"} : PassStored(op)
    \/ \E p \in Procs : baseCatcher_Add(p)
    \/ \E p \in Procs : baseCatcher_safeAdd(p)
    \/ \E p \in Procs : baseCatcher_safeAdd_append(p)
    \/ \E p \in Procs : baseCatcher_Check(p)
    \/ \E p \in Procs : timeAnnotatingCatcher_Add(p)
    \/ \E p \in Procs : timeAnnotatingCatcher_Extend(p)
    \/ \E p \in Procs : timeAnnotatingCatcher_safeAdd(p)
    \/ \E p \in Procs : timeAnnotatingCatcher_safeAdd_append(p)
    \/ \E p \in Procs : timeAnnotatingCatcher_Check(p)

WrapSpec == WrapInit /\ [][WrapNext]_vars

----------------------------------------------------------------------------
(* Properties of the wrapping functions *)

\* the error goroutine p passes to the collector in its call of Add or Check
Passed(p) == IF Top(p).op = "Check" THEN Top(p).fns[1] ELSE Top(p).err

\* C22: wrapping nil gives an absent error: the value WrapErrorTime,
\* WrapErrorTimeMessage and WrapErrorTimeMessagef return for a nil error is
\* equal to nil, and Add or Check of it leaves the length of a collector of
\* any variant as it was
C22_WrapNilAbsent ==
    /\ [](\A p \in Procs : Holding(p) /\ Top(p).err = Nil => Top(p).out.nil)
    /\ [][\A p \in Procs :
            Top(p).op \in {"Add", "Check"} /\ Passed(p) \in {Nil, Ts(0)} =>
                Len(errs'["A"]) = Len(errs["A"])]_vars

\* e is a timestampError made earlier (not the nil pointer)
Stamped(e) == e.kind = "ts" /\ e.ref # 0

\* C23: wrapping is idempotent and the first capture instant stays:
\* WrapErrorTime of a timestampError returns that same pointer and makes no
\* new one; no step changes the instant or the error of a timestampError;
\* and Add or Extend on a timestamp collector, given a timestampError,
\* appends that same pointer, however long after its capture
C23_WrapIdempotent ==
    /\ [][\A p \in Procs :
            At(p, "WrapErrorTime") /\ Stamped(Top(p).err) /\ calls' # calls =>
                /\ calls' = Return(p, ErrorOf(Top(p).err.ref))
                /\ tsHeap' = tsHeap]_vars
    /\ [][\A r \in DOMAIN tsHeap :
            /\ r \in DOMAIN tsHeap'
            /\ tsHeap'[r].time = tsHeap[r].time
            /\ tsHeap'[r].err = tsHeap[r].err]_vars
    /\ [][\A p \in Procs :
            /\ IsTs(kind[Self(p)])
            /\ Top(p).op \in {"Add", "Check", "Extend"}
            /\ At(p, "safeAdd")
            /\ Stamped(Top(p).err)
            /\ calls' # calls
            => /\ Len(tsHeap') = Len(tsHeap)
               /\ IF HasRoom(maxSize[Self(p)], Len(errs[Self(p)]))
                  THEN errs'[Self(p)] = Append(errs[Self(p)], Top(p).err)
                  ELSE \E q \in BagToSet(calls') :
                          At(q, "safeAdd.append") /\ Top(q).err = Top(p).err]_vars

\* Extend of a slice that begins with a timestampError has stored it, more
\* than one reading of the clock after its capture, and goes on with the
\* next error of the slice
C23_Witness ==
    \E p \in Procs :
        /\ Top(p).op = "Extend" /\ At(p, "safeAdd") /\ Top(p).idx = 2
        /\ Stamped(Top(p).list[1])
        /\ errs["A"] # <<>>
        /\ errs["A"][Len(errs["A"])] = Top(p).list[1]
        /\ tsHeap[Top(p).list[1].ref].time + 1 < now

----------------------------------------------------------------------------
(* ErrorTimeFinder.  An error chain is a sequence of errors, each the cause *)
(* of the one before it; the last one has none.  An error of the chain is a *)
(* *timestampError ("ts", with its instant), a nil *timestampError          *)
(* ("tsnil"), or an error of another type ("plain") that exposes the next   *)
(* one by Cause(), by Unwrap(), by both or by neither.                      *)

MaxChain == 3

Chains ==
    LET Nodes == {[kind |-> "ts", time |-> t, cause |-> TRUE, unwrap |-> TRUE] : t \in {1, 2}}
                 \cup {[kind |-> "tsnil", time |-> 0, cause |-> FALSE, unwrap |-> FALSE]}
                 \cup {[kind |-> "plain", time |-> 0, cause |-> c, unwrap |-> u] :
                          c \in BOOLEAN, u \in BOOLEAN}
    IN  UNION {[1..n -> Nodes] : n \in 0..MaxChain}

FinderInit ==
    /\ \E chain \in Chains :
          calls = SetToBag({<<[Frame("ErrorTimeFinder", "A") EXCEPT !.list = chain]>>})
    /\ kind = [c \in Catchers |-> "basic"]
    /\ maxSize = [c \in Catchers |-> 0]
    /\ ec = NoChannel
    /\ Fresh

\* the result (t, ok) of ErrorTimeFinder; the zero time.Time is 0
TimeFound(t) == [Value EXCEPT !.n = t, !.b = TRUE]
NoTimeFound == [Value EXCEPT !.n = 0, !.b = FALSE]

\* seeded fault: the loop follows Unwrap() only
ErrorTimeFinder_for_UnwrapOnly(p) ==
    LET f == Top(p)
    IN  /\ At(p, "ErrorTimeFinder.for")
        /\ calls' = IF f.idx > Len(f.list) THEN Return(p, NoTimeFound)
                    ELSE IF f.list[f.idx].kind = "tsnil" THEN Return(p, NoTimeFound)
                    ELSE IF f.list[f.idx].kind = "ts"
                    THEN Return(p, TimeFound(f.list[f.idx].time))
                    ELSE IF f.list[f.idx].unwrap
                    THEN SetTop(p, [f EXCEPT !.idx = @ + 1])
                    ELSE Return(p, NoTimeFound)
        /\ UNCHANGED <<ec, kind, maxSize, errs, wlock, tsHeap, now, submitted, added>>

\* func ErrorTimeFinder(err error) (time.Time, bool), up to the loop: the
\* test for nil and the type assertion err.(*timestampError); err is
\* list[idx], and nil past the end of the chain
ErrorTimeFinder(p) ==
    LET f == Top(p)
    IN  /\ At(p, "ErrorTimeFinder")
        /\ calls' = IF f.idx > Len(f.list) THEN Return(p, NoTimeFound)
                    ELSE IF f.list[f.idx].kind = "tsnil" THEN Return(p, NoTimeFound)
                    ELSE IF f.list[f.idx].kind = "ts"
                    THEN Return(p, TimeFound(f.list[f.idx].time))
                    ELSE Goto(p, "ErrorTimeFinder.for")
        /\ UNCHANGED <<ec, kind, maxSize, errs, wlock, tsHeap, now, submitted, added>>

\* one iteration of the loop: the type switch, whose cases are tried in
\* order: *timestampError, interface{ Cause() error }, interface{ Unwrap()
\* error }; a nil error matches none and ends the loop
ErrorTimeFinder_for(p) ==
    LET f == Top(p)
    IN  /\ At(p, "ErrorTimeFinder.for")
        /\ calls' = IF f.idx > Len(f.list) THEN Return(p, NoTimeFound)
                    ELSE IF f.list[f.idx].kind = "tsnil" THEN Return(p, NoTimeFound)
                    ELSE IF f.list[f.idx].kind = "ts"
                    THEN Return(p, TimeFound(f.list[f.idx].time))
                    ELSE IF f.list[f.idx].cause
                    THEN SetTop(p, [f EXCEPT !.idx = @ + 1])
                    ELSE IF f.list[f.idx].unwrap
                    THEN SetTop(p, [f EXCEPT !.idx = @ + 1])
                    ELSE Return(p, NoTimeFound)
        /\ UNCHANGED <<ec, kind, maxSize, errs, wlock, tsHeap, now, submitted, added>>

FinderNext ==
    \/ \E p \in Procs : ErrorTimeFinder(p)
    \/ \E p \in Procs : ErrorTimeFinder_for(p)

FinderSpec == FinderInit /\ [][FinderNext]_vars

\* the errors of a chain that are reached from its first one by Cause() or
\* Unwrap(): every error before them exposes one of the two
Linked(n) == n.kind = "ts" \/ (n.kind = "plain" /\ (n.cause \/ n.unwrap))
Reached(chain) == {i \in DOMAIN chain : \A j \in 1..(i - 1) : Linked(chain[j])}
Wrappers(chain) == {i \in Reached(chain) : chain[i].kind = "ts"}

\* C24: ErrorTimeFinder ends on every finite chain, each step of it either
\* returning or going on to the next error of the chain, and never past the
\* nil at the end; it returns (t, true) exactly when a non-nil timestampError
\* is reached from the error by Cause() and Unwrap(), t being the instant of
\* the first one, and (zero, false) otherwise, as for nil and for a nil
\* *timestampError
C24_ErrorTimeFinder ==
    /\ [](\A p \in Procs : Top(p).op = "ErrorTimeFinder" =>
            /\ Top(p).idx <= Len(Top(p).list) + 1
            /\ At(p, "done") =>
                   LET chain == Top(p).list
                       first == CHOOSE i \in Wrappers(chain) :
                                   \A j \in Wrappers(chain) : i <= j
                   IN  Top(p).out = IF Wrappers(chain) = {} THEN NoTimeFound
                                     ELSE TimeFound(chain[first].time))
    /\ [][\A p \in Procs : Top(p).op = "ErrorTimeFinder" /\ ~At(p, "done") =>
            \E q \in BagToSet(calls') :
                \/ At(q, "done")
                \/ At(p, "ErrorTimeFinder") /\ Top(q).idx = Top(p).idx
                \/ Top(q).idx = Top(p).idx + 1]_vars

\* the finder has returned the instant of the timestampError at the end of a
\* chain of three errors, the first exposing Cause() only and the second
\* Unwrap() only
C24_Witness ==
    \E p \in Procs :
        /\ Top(p).op = "ErrorTimeFinder" /\ At(p, "done")
        /\ Len(Top(p).list) = MaxChain
        /\ Top(p).list[1].kind = "plain" /\ Top(p).list[1].cause /\ ~Top(p).list[1].unwrap
        /\ Top(p).list[2].kind = "plain" /\ ~Top(p).list[2].cause /\ Top(p).list[2].unwrap
        /\ Top(p).list[3].kind = "ts"
        /\ Top(p).out = TimeFound(Top(p).list[3].time)

\* C33: an ErrorChannel built with size s never holds more than s items in
\* its inbound queue nor more than s in its outbound queue, while its
\* collector is unbounded: no step takes an error out of the collector, by
\* whichever way it was recorded
C33_QueuesBounded ==
    /\ [](ec.on => /\ Len(ec.errRecv) <= ec.size
                   /\ Len(ec.errSend) <= ec.size
                   /\ maxSize["A"] <= 0
                   /\ errs["A"] = added["A"])
    /\ [][ec.on => IsPrefix(errs["A"], errs'["A"]) /\ ec'.size = ec.size]_vars

\* both queues are full and the collector holds more errors than a queue
C33_Witness ==
    /\ ec.on
    /\ Len(ec.errRecv) = ec.size
    /\ Len(ec.errSend) = ec.size
    /\ Len(errs["A"]) > ec.size

\* collector c is bounded and as many errors as it holds were appended
Full(c) == maxSize[c] > 0 /\ Len(added[c]) >= maxSize[c]

\* goroutine p is in a call of Len, Errors or Resolve, before one of the read
\* sections of the call
Observing(p) ==
    /\ Len(p) = 1
    /\ Top(p).pc \in {"Len", "Errors", "Resolve", "Resolve.String"}

\* the lines of a text
Lines(text) == 1 + Cardinality({i \in DOMAIN text : text[i] = "\n"})

\* C34: eviction is atomic for observers: once a bounded collector is full,
\* every read section of Len(), Errors() and Resolve(), of whichever
\* goroutine and whatever the writers are doing, runs on exactly maxSize
\* stored errors and returns that many: Len() the number, Errors() a slice
\* of that length, Resolve() an aggregate of that many lines (one line for
\* each error that is not itself a collector); none runs
\* between the drop of the oldest error and the append of the new one
C34_AtomicEviction ==
    [][\A p \in Procs :
          LET c == Self(p)
          IN  /\ Observing(p) /\ Full(c)
              /\ CopiesIn(p, calls') < CopiesIn(p, calls)
              /\ BagCardinality(calls') = BagCardinality(calls)
              =>
                /\ Len(errs[c]) = maxSize[c]
                /\ ~Evicting(c)
                /\ \E q \in BagToSet(calls') :
                      CASE At(p, "Len") -> At(q, "done") /\ Top(q).out.n = maxSize[c]
                        [] At(p, "Errors") ->
                              At(q, "done") /\ Len(Top(q).out.errs) = maxSize[c]
                        [] At(p, "Resolve") -> At(q, "Resolve.String")
                        [] At(p, "Resolve.String") ->
                              (\A i \in DOMAIN errs[c] : Unwrap(errs[c][i]).kind = "leaf")
                                  => At(q, "done") /\ Lines(Top(q).out.text) = maxSize[c]]_vars

\* a call of Len() waits while a writer is between the drop and the append
C34_Witness ==
    \E p \in Procs :
        /\ At(p, "Len")
        /\ Full(Self(p))
        /\ Evicting(Self(p))
        /\ Len(errs[Self(p)]) = maxSize[Self(p)] - 1

\* goroutine p is inside the range loop of its call of Extend, holding the
\* mutex, about to store the error in hand; StoredBy is what it has stored
\* (the slice holds plain errors and nils; a collector in it is merged, which
\* is a separate path)
Extending(p) ==
    /\ Len(p) = 1 /\ Top(p).op = "Extend" /\ At(p, "safeAdd")
    /\ \A i \in DOMAIN Top(p).list : Top(p).list[i] = Nil \/ Top(p).list[i].kind = "leaf"
StoredBy(p) == ToStore(Self(p), SubSeq(Top(p).list, 1, Top(p).idx - 1))

\* the step is taken by goroutine p
StepOf(p) ==
    /\ CopiesIn(p, calls') < CopiesIn(p, calls)
    /\ BagCardinality(calls') <= BagCardinality(calls)

\* C36: Extend is atomic for concurrent insertions.  While a call of Extend
\* on an unbounded collector is in its loop, the errors it has stored so far
\* are the last ones of the stored sequence, in the order of the slice; each
\* step of the call appends the next non-nil error of the slice; and no step
\* of another goroutine changes the stored sequence until the call returns
C36_ExtendAtomic ==
    /\ [](\A p \in Procs :
            Extending(p) /\ maxSize[Self(p)] <= 0 /\ Len(StoredBy(p)) <= Len(errs[Self(p)])
                => Unwrapped(Suffix(errs[Self(p)], Len(StoredBy(p)))) = StoredBy(p))
    /\ [](\A p \in Procs :
            Extending(p) /\ maxSize[Self(p)] <= 0 => Len(StoredBy(p)) <= Len(errs[Self(p)]))
    /\ [][\A p \in Procs :
            Extending(p) /\ maxSize[Self(p)] <= 0 =>
                IF StepOf(p)
                THEN (Unwrapped(errs[Self(p)]))' = Append(Unwrapped(errs[Self(p)]), Top(p).err)
                ELSE errs'[Self(p)] = errs[Self(p)]]_vars

\* a call of Extend has stored the first error of its slice and holds the
\* mutex, and a call of Add with another error waits for it
C36_Witness ==
    \E p \in Procs, q \in Procs :
        /\ Extending(p)
        /\ maxSize["A"] <= 0
        /\ Len(StoredBy(p)) = 1
        /\ Top(q).op = "Add" /\ At(q, "Add") /\ Top(q).err # Top(p).err
        /\ Top(q).err # Nil

\* the length a reader can observe: a writer between the drop and the append
\* of an eviction holds the mutex, and the append follows before it is released
VisLen(c) == IF Evicting(c) THEN Len(errs[c]) + 1 ELSE Len(errs[c])

\* C37: Len() of a collector never decreases.  The observable length of every
\* collector never goes down in any step; Len() returns it and HasErrors()
\* returns whether it is positive, so later observations are at least earlier
\* ones and HasErrors stays true; and a Resolve() that saw errors renders its
\* aggregate from a collector that still holds at least one error, so it never
\* returns nil or an aggregate made of no errors
C37_LenMonotone ==
    /\ [][\A c \in Catchers : (VisLen(c))' >= VisLen(c)]_vars
    /\ [][\A p \in Procs :
            LET c == Self(p)
            IN  Len(p) = 1 /\ StepOf(p) =>
                  /\ At(p, "Len") =>
                        \E q \in BagToSet(calls') :
                            At(q, "done") /\ Top(q).out.n = VisLen(c) /\ ~Evicting(c)
                  /\ At(p, "HasErrors") =>
                        \E q \in BagToSet(calls') :
                            At(q, "done") /\ (Top(q).out.b <=> VisLen(c) > 0)
                  /\ At(p, "Resolve") /\ VisLen(c) > 0 =>
                        \E q \in BagToSet(calls') : At(q, "Resolve.String")
                  /\ At(p, "Resolve.String") =>
                        /\ Len(errs[c]) > 0
                        /\ ~Evicting(c)
                        /\ \E q \in BagToSet(calls') :
                              \/ At(q, "panic")
                              \/ /\ At(q, "done")
                                 /\ Top(q).out # NilError
                                 /\ Top(q).out.text = CatcherString(c, {}).text]_vars

\* a Resolve() has seen errors on a full bounded collector and waits to
\* render while a writer has dropped the oldest error and not yet appended
\* the new one, so that fewer errors are stored than Resolve() saw
C37_Witness ==
    \E p \in Procs :
        /\ Len(p) = 1 /\ Top(p).op = "Resolve" /\ At(p, "Resolve.String")
        /\ maxSize[Self(p)] > 0
        /\ Evicting(Self(p))
        /\ Len(errs[Self(p)]) = maxSize[Self(p)] - 1

\* The path of an error through the bridge, counted stage by stage.  Offered:
\* the non-nil errors waiting in the inbound queue or in the hands of a
\* Collect that has not begun.  Adding: the calls of Add that start and
\* Collect have made and that have not stored yet.  Forwarding: the goroutines
\* holding an error between its Add and the select that sends it.  Recorded
\* and Delivered: the copies the collector stores, and those that went out.
Offered ==
    Pending + CountIn({p \in Procs : p[1].op = "Collect" /\ p[1].pc = "Collect"
                                        /\ p[1].err # Nil})
SendLabels == {"start.send", "Collect.send"}
Adding == CountIn({p \in Procs : Len(p) = 2 /\ p[1].pc \in SendLabels})
Forwarding == CountIn({p \in Procs : p[1].pc \in SendLabels})
Recorded == Cardinality({i \in DOMAIN errs["A"] : errs["A"][i] = ErrA})
Delivered == Cardinality({i \in DOMAIN Forwarded : Forwarded[i] = ErrA})

\* the step submits an error: a send on In() or a new call of Collect
Submits ==
    IF \/ ec'.errRecv = Append(ec.errRecv, ErrA)
       \/ /\ BagCardinality(calls') > BagCardinality(calls)
          /\ \E p \in BagToSet(calls') :
                /\ p[1].op = "Collect" /\ p[1].pc = "Collect" /\ p[1].err # Nil
                /\ CopiesIn(p, calls') > CopiesIn(p, calls)
    THEN 1 ELSE 0

\* C38: no duplication through the bridge.  In every step the errors recorded
\* plus those still on their way to the collector grow by at most the one
\* error the step submits, and so do the errors delivered plus those still on
\* their way to Out(); recording an error takes it out of the first count and
\* delivering it out of the second, so each submitted error is recorded at
\* most once and delivered at most once
C38_NoDuplication ==
    /\ [][ec.on =>
            /\ (Recorded + Adding + Offered)' <= Recorded + Adding + Offered + Submits
            /\ (Delivered + Forwarding + Offered)' <= Delivered + Forwarding + Offered + Submits
            /\ Recorded' <= Recorded + 1
            /\ Delivered' <= Delivered + 1]_vars
    /\ [](ec.on => Delivered <= Recorded)

\* two errors went through the bridge: both are recorded once and both were
\* received from Out(), and the goroutine of start is back at its select
C38_Witness ==
    /\ ec.on
    /\ Recorded = 2
    /\ Len(ec.received) = 2
    /\ Offered = 0 /\ Forwarding = 0
    /\ \E p \in Procs : p[1].op = "start" /\ At(p, "start") /\ p[1].ctx = "ctx"

\* C32: after Stop() or the cancellation of the parent context the goroutine
\* of start eventually ends, whatever the producers send on In() and although
\* nothing obliges anyone to receive from Out(); once it has ended it does not
\* run again and nothing is taken from the inbound queue any more
C32_TaskTerminates ==
    /\ (ec.on /\ ec.done) ~> ~TaskRuns
    /\ [][ec.on /\ ~TaskRuns =>
            /\ ~TaskRuns'
            /\ IsPrefix(ec.errRecv, ec'.errRecv)]_vars

\* the goroutine of start has ended after a Stop(); nothing was ever received
\* from Out(), whose queue is full, and an error sent on In() after the stop
\* stays in the inbound queue
C32_Witness ==
    /\ ec.on /\ ec.done /\ ~TaskRuns
    /\ ec.received = <<>>
    /\ Len(ec.errSend) = ec.size
    /\ ec.errRecv # <<>> /\ Head(ec.errRecv) # Nil /\ Head(ec.lateRecv)

-----------------------------------------------------------------------------
(* One producer on In(), the goroutine of start, a consumer of Out() *)

\* the largest buffer size of the channel of this specification
MaxPipe == 2

\* ec := NewErrorChannel(ctx, size)
PipeInit ==
    /\ kind = [c \in Catchers |-> IF c = "A" THEN "extended" ELSE "basic"]
    /\ maxSize = [c \in Catchers |-> 0]
    /\ calls = SetToBag({<<Frame("start", "A")>>})
    /\ \E size \in 1..MaxPipe : ec = [NoChannel EXCEPT !.on = TRUE, !.size = size]
    /\ Fresh

\* The producer sends nil and two different errors on In() in any order, the
\* consumer receives from Out(), anyone stops the channel or cancels the
\* parent context, and the goroutine of start takes its steps
PipeNext ==
    \/ \E e \in {Nil, ErrA, ErrEmpty} : SendIn(e)
    \/ ReceiveOut
    \/ CancelParent
    \/ ErrorChannel_Stop
    \/ \E p \in Procs : ErrorChannel_start(p)
    \/ \E p \in Procs : ErrorChannel_start_send(p)
    \/ \E p \in Procs : baseCatcher_Add(p)
    \/ \E p \in Procs : baseCatcher_safeAdd(p)

\* The goroutine of start runs whenever it can (the Go scheduler runs every
\* runnable goroutine), and a select whose ctx.Done() case is ready again and
\* again takes it in the end (a select chooses among its ready cases by a
\* uniform pseudo-random selection).  Nothing obliges the producer to send,
\* the consumer to receive, or anyone to stop.
PipeSpec ==
    /\ PipeInit
    /\ [][PipeNext]_vars
    /\ WF_vars(\E p \in Procs : ErrorChannel_start(p))
    /\ SF_vars(\E p \in Procs : ErrorChannel_start(p) /\ calls' = Return(p, NoOut))
    /\ WF_vars(\E p \in Procs : ErrorChannel_start_send(p))
    /\ WF_vars(\E p \in Procs : baseCatcher_Add(p))
    /\ WF_vars(\E p \in Procs : baseCatcher_safeAdd(p))

\* the non-nil errors sent on In() so far: those waiting in the inbound queue
\* and those the goroutine of start has passed to the collector
Sent == Pending + BagCardinality(submitted["A"])

\* C31: on the behaviours in which Out() keeps being drained (the outbound
\* queue is empty again and again), while the channel is not stopped and its
\* parent context is live, every non-nil error sent on In() is eventually
\* recorded, of k errors sent the collector comes to hold k, and all k are
\* eventually received from Out(); and no error goes out before it is
\* recorded
C31_EventuallyForwarded ==
    /\ ([]<>(ec.errSend = <<>>)) =>
          \A k \in 1..MaxChanErrs :
              /\ (~ec.done /\ Sent = k) ~> (ec.done \/ Len(errs["A"]) >= k)
              /\ (~ec.done /\ Sent = k) ~> (ec.done \/ Len(ec.received) >= k)
    /\ [](IsPrefix(ec.received \o ec.errSend, errs["A"]))

\* two errors sent on In() were recorded and received from Out() while the
\* channel runs
C31_Witness ==
    /\ ~ec.done /\ TaskRuns
    /\ Sent = 2
    /\ errs["A"] = <<ErrA, ErrEmpty>>
    /\ ec.received = errs["A"]

\* the non-nil errors of a queue, in its order
NonNil(q) == SelectSeq(q, LAMBDA e : e # Nil)

\* the error the goroutine of start has received and not yet stored
InHand ==
    LET S == {p \in Procs : Len(p) = 2 /\ p[1].op = "start" /\ p[1].pc = "start.send"}
    IN  IF S = {} THEN <<>> ELSE <<(CHOOSE p \in S : TRUE)[1].err>>

\* the errors of the single producer in the order it sent them: those
\* recorded, then the one in the hands of the goroutine, then those waiting
SendOrder == errs["A"] \o InHand \o NonNil(ec.errRecv)

\* C39: order is kept through the bridge.  The errors sent on In() form one
\* line in the order of sending, which a send extends at its end and no other
\* step changes; the collector holds the front of that line, so the errors
\* are recorded in the order sent; and those that went out, received or
\* waiting in the outbound queue, are the front of the recorded ones, in the
\* same order
C39_OrderPreserved ==
    /\ [][\/ SendOrder' = SendOrder
          \/ \E e \in {ErrA, ErrEmpty} :
                /\ ec'.errRecv = Append(ec.errRecv, e)
                /\ SendOrder' = Append(SendOrder, e)]_vars
    /\ [](IsPrefix(errs["A"], SendOrder))
    /\ [](IsPrefix(ec.received \o ec.errSend, errs["A"]))

\* two different errors went through a channel of size 2: the one sent first
\* is recorded first and was received from Out(), the other waits behind it
C39_Witness ==
    /\ ec.size = 2
    /\ errs["A"] = <<ErrEmpty, ErrA>>
    /\ ec.received = <<ErrEmpty>>
    /\ ec.errSend = <<ErrA>>

\* a call on collector B takes a step
StepOnB == \E p \in Procs : Self(p) = "B" /\ StepOf(p)

\* C35: operations on one collector never change what another reports: no
\* step of a call of Add or Extend on timestamp collector B, given an error
\* that timestamp collector A stores, changes the sequence A stores or the
\* text A's Resolve() returns
C35_OtherCollectorUnchanged ==
    [][StepOnB /\ IsTs(kind["A"]) =>
          /\ errs'["A"] = errs["A"]
          /\ (CatcherString("A", {}))' = CatcherString("A", {})]_vars

====
